---- MODULE Spec2Model ----
(***************************************************************************)
(* Model of shannot's permission engine (shannot/mix_subprocess.py), the   *)
(* session hand-off (finalize_session / create_session) and the virtual    *)
(* path resolution described for the VFS; of the controller's main()       *)
(* (shannot/interact.py) from its options to the end of the run; of        *)
(* profile loading (shannot/config.py) and of the audit log                *)
(* (shannot/audit.py).                                                     *)
(*                                                                         *)
(* A command string is a sequence of one-character strings, so that        *)
(* str.split(), "=" in p and split("/")[-1] are computed on the text and   *)
(* not assumed.                                                            *)
(***************************************************************************)
EXTENDS Integers, Sequences, FiniteSets, TLC

VARIABLES
    subprocess_dry_run,       \* MixSubprocess.subprocess_dry_run
    vfs_track_writes,         \* SandboxedProc.vfs_track_writes
    subprocess_auto_persist,  \* MixSubprocess.subprocess_auto_persist
    remote_target,            \* MixSubprocess.remote_target (None = local)
    ssh_connection,           \* getattr(self, "_ssh_connection", None) is set
    subprocess_always_deny,   \* set of strings
    subprocess_auto_approve,  \* set of strings
    subprocess_pending,       \* list of command strings
    subprocess_approved,      \* set of command strings
    file_writes_pending,      \* list of tracked writes
    queue_file,               \* DEFAULT_QUEUE: whether written, and the list in it
    sessions,                 \* sessions persisted by create_session, in order
    last,                     \* the call that was served last, and its result
    ncalls,                   \* number of calls served so far
    vpath,                    \* path handed to the virtual path resolution
    tmp_bound,                \* vfs_root.entries["tmp"] is a RealDir (--tmp)
    pc,                       \* interact.main: the statement it is at
    opt,                      \* interact.main: the options it was given
    requested,                \* the child's system() requests, in order
    own,                      \* per instance: what its own calls put in the state
    profile_files,            \* the profile.json files load_profile() can find
    audit_file,               \* the lines of one audit log file
    audit_proc,               \* per process: where its log() call is
    audit_lock,               \* the process holding flock(LOCK_EX), or 0
    host,                     \* (sys.platform, platform.machine()) of the controller
    store,                    \* the sessions directory: per id, the saved session
    tui,                      \* shannot-approve: the view stack and the list's selection
    runs,                     \* sessions created and sessions run, in order
    logs,                     \* AuditLogger: its configuration, log directory and calls
    mcp,                      \* MinimalMCPServer.run: the loop, the line served, the output
    tools,                    \* ShannotMCPServer: deps_by_profile and the tool call served
    runtime                   \* the runtime directory and the setup_runtime call served

vars == << subprocess_dry_run, vfs_track_writes, subprocess_auto_persist,
           remote_target, ssh_connection, subprocess_always_deny,
           subprocess_auto_approve, subprocess_pending, subprocess_approved,
           file_writes_pending, queue_file, sessions, last, ncalls,
           vpath, tmp_bound, pc, opt, requested, own, profile_files,
           audit_file, audit_proc, audit_lock, host, store, tui, runs, logs,
           mcp, tools, runtime >>

config_vars == << subprocess_dry_run, vfs_track_writes, subprocess_auto_persist,
                  remote_target, ssh_connection, subprocess_always_deny,
                  subprocess_auto_approve >>

vfs_vars == << vpath, tmp_bound >>

\* what the dispatcher's methods read and write besides the configuration
engine_vars == << subprocess_pending, subprocess_approved, file_writes_pending,
                  queue_file, sessions, last, ncalls >>

main_vars == << pc, opt, requested >>

audit_vars == << audit_file, audit_proc, audit_lock >>

\* the state outside one instance's permission engine
\* the stored sessions and the tools that review and run them
review_vars == << store, tui, runs >>

\* the services beside the sandbox: audit logging, the MCP server and the
\* runtime installer
service_vars == << logs, mcp, tools, runtime >>

ext_vars == << main_vars, own, profile_files, audit_vars, host, review_vars, service_vars >>

-----------------------------------------------------------------------------
(* Bounds *)

\* number of calls (requests, approvals, writes, finalizations) in one run
MaxCalls == 3

\* number of components of a resolved path
MaxPathLen == 5

\* number of entries of each set handed to the classification
MaxSetSize == 2

\* number of log() calls one process makes
MaxLogCalls == 2

\* length of the command texts _parse_command is applied to
MaxCmdLen == 5
\* create_session calls in a behaviour
MaxSessions == 2

-----------------------------------------------------------------------------
(* State outside the permission engine, at rest *)

\* dispatcher instances living in one process
Instances == {1, 2}

\* processes writing to one audit log file
Procs == {1, 2}

NoSession == [id |-> "None", found |-> FALSE, commands |-> <<>>]

NoOptions == [dry_run |-> FALSE, debug |-> FALSE, target |-> "None",
              session |-> NoSession, approved_commands |-> <<>>]

NothingOwn == [made |-> FALSE, pending |-> <<>>, approved |-> {}, auto |-> {},
               deny |-> {}]

\* a profile.json that does not exist
Absent == [kind |-> "absent", keys |-> {}, auto |-> {}, deny |-> {}]

\* no .shannot directory above the working directory, no global profile.json
NoProfileFiles == [project_root |-> FALSE, local |-> Absent, global |-> Absent]

\* the host the other specifications run on
LinuxX86 == [platform |-> "linux", arch |-> "x86_64"]

\* session ids: generate_session_id gives date-slug-xxxx; the date and slug
\* are the name here, xxxx the four hex digits
SessionIds == {"fix"} \X {0, 1}

\* no session.json under this id
NotStored == [exists |-> FALSE, status |-> "-", commands |-> <<>>, exit_code |-> 0,
              serial |-> 0]

\* shannot-approve is not running
\* the view stack of run_tui; empty while the TUI is not running
NoTui == <<>>

NoLogCall == [at |-> "idle", seq |-> 0, size |-> 0, done |-> 0]

\* an AuditLogger that has not been constructed
NoLogs == << >>

\* a MinimalMCPServer whose run() has not been called
NoMcp == << >>

\* a ShannotMCPServer that has not been constructed
NoTools == << >>

\* setup_runtime has not been called
NoRuntime == << >>

IdleServices ==
    /\ logs = NoLogs
    /\ mcp = NoMcp
    /\ tools = NoTools
    /\ runtime = NoRuntime

IdleExt ==
    /\ pc = "method"
    /\ opt = NoOptions
    /\ requested = <<>>
    /\ own = [i \in Instances |-> NothingOwn]
    /\ profile_files = NoProfileFiles
    /\ audit_file = <<>>
    /\ audit_proc = [p \in Procs |-> NoLogCall]
    /\ audit_lock = 0
    /\ host = LinuxX86
    /\ store = [i \in SessionIds |-> NotStored]
    /\ tui = NoTui
    /\ runs = <<>>
    /\ IdleServices

-----------------------------------------------------------------------------
(* Text *)

\* remote_target = None
None == "None"

\* str.split() without argument splits on runs of whitespace
IsSpace(ch) == ch \in {" ", "\t", "\n"}

RECURSIVE SplitFrom(_, _, _, _)
\* scan s from index i; cur is the token being read, acc the tokens read
SplitFrom(s, i, cur, acc) ==
    IF i > Len(s)
    THEN IF cur = <<>> THEN acc ELSE Append(acc, cur)
    ELSE IF IsSpace(s[i])
         THEN SplitFrom(s, i + 1, <<>>, IF cur = <<>> THEN acc ELSE Append(acc, cur))
         ELSE SplitFrom(s, i + 1, Append(cur, s[i]), acc)

\* cmd.split()
Split(s) == SplitFrom(s, 1, <<>>, <<>>)

\* ch in p
Contains(p, ch) == \E i \in DOMAIN p : p[i] = ch

\* p.split("/")[-1]: the text after the last "/", all of p when it has none
LastPathPart(p) ==
    LET slashes == {i \in DOMAIN p : p[i] = "/"}
        from == IF slashes = {} THEN 1
                ELSE (CHOOSE i \in slashes : \A j \in slashes : j <= i) + 1
    IN  SubSeq(p, from, Len(p))

\* The command strings and set entries of the model, as text
S_empty    == <<>>
S_blank    == <<" ", " ">>
S_ls       == <<"l", "s">>
S_rm       == <<"r", "m">>
S_x        == <<"x">>
S_make     == <<"m", "a", "k", "e">>
S_rm_x     == <<"r", "m", " ", "x">>
S_bin_rm_x == <<"/", "b", "/", "r", "m", " ", "x">>
S_env_rm_x == <<"A", "=", "1", " ", "r", "m", " ", "x">>
S_env_only == <<"A", "=", "1">>
S_eqdir_rm == <<"a", "=", "/", "r", "m", " ", "x">>
S_ls_rm_x  == <<"l", "s", " ", ";", "r", "m", " ", "x">>

-----------------------------------------------------------------------------
(* Classification *)

\* MixSubprocess._parse_command: << base, parts >>
_parse_command(cmd) ==
    LET parts == Split(cmd)
    IN  IF parts = <<>>
        THEN << S_empty, <<>> >>
        ELSE LET plain == {i \in DOMAIN parts : ~Contains(parts[i], "=")}
                 base  == IF plain = {} THEN parts[1]
                          ELSE parts[CHOOSE i \in plain : \A j \in plain : i <= j]
             IN  << LastPathPart(base), parts >>

BaseOf(cmd) == _parse_command(cmd)[1]

\* a plausible slip: the approved set is consulted before the deny set
CheckPermissionApprovedFirst(cmd, deny, approved, auto) ==
    IF cmd \in approved THEN "allow"
    ELSE IF BaseOf(cmd) \in deny \/ cmd \in deny THEN "deny"
    ELSE IF BaseOf(cmd) \in auto \/ cmd \in auto THEN "allow"
    ELSE "queue"

\* a plausible slip: the session-approved set is never consulted
CheckPermissionNoApproved(cmd, deny, approved, auto) ==
    IF BaseOf(cmd) \in deny \/ cmd \in deny THEN "deny"
    ELSE IF BaseOf(cmd) \in auto \/ cmd \in auto THEN "allow"
    ELSE "queue"

\* MixSubprocess._check_permission over explicit sets
CheckPermission(cmd, deny, approved, auto) ==
    IF BaseOf(cmd) \in deny \/ cmd \in deny THEN "deny"
    ELSE IF cmd \in approved THEN "allow"
    ELSE IF BaseOf(cmd) \in auto \/ cmd \in auto THEN "allow"
    ELSE "queue"

\* MixSubprocess._check_permission on the instance's sets
_check_permission(cmd) ==
    CheckPermission(cmd, subprocess_always_deny, subprocess_approved,
                    subprocess_auto_approve)

-----------------------------------------------------------------------------
(* The run's inputs *)

\* commands the sandboxed child requests
Cmd == {S_ls, S_rm_x, S_ls_rm_x, S_make}

\* exit codes a real execution can end with
ExitCodes == {0, 2}

\* (always_deny, auto_approve) as load_profile() can leave them
Profiles ==
    { [deny |-> {},          auto |-> {}],
      [deny |-> {S_rm},      auto |-> {S_ls}],
      [deny |-> {S_ls_rm_x}, auto |-> {S_ls, S_make}] }

\* command lists of stored sessions that load_session_commands can be given
SessionCommandLists == { <<S_make>>, <<S_rm_x, S_ls_rm_x>> }

\* tracked writes: PendingWrite objects (with to_dict) or plain dicts
Writes == { [kind |-> "PendingWrite", path |-> "/tmp/a"],
            [kind |-> "dict",         path |-> "/tmp/b"] }

\* PendingWrite.to_dict() / a dict passed through
WriteToDict(w) == [kind |-> "dict", path |-> w.path]

\* nothing written to sys.stderr
NoDiag == [tag |-> "-", cmd |-> S_empty, target |-> "None"]

\* sys.stderr.write(f"[TAG] {cmd}\n"); the allow branch adds " @ target"
Diag(tag, cmd, target) == [tag |-> tag, cmd |-> cmd, target |-> target]

NoCall == [op |-> "init", cmd |-> S_empty, perm |-> "-", ret |-> 0,
           execs |-> <<>>, created |-> 0, ret_none |-> FALSE, diag |-> NoDiag]

Range(s) == {s[i] : i \in DOMAIN s}

-----------------------------------------------------------------------------
(* Execution *)

\* a plausible slip: the remote target is ignored and the command runs here
ExecuteCommandAlwaysLocal(cmd, rc) ==
    [cmd |-> cmd, how |-> "local_shell", target |-> None, rc |-> rc]

\* MixSubprocess._execute_command: where cmd runs; rc is the exit code the
\* execution ends with. "if self.remote_target": an unset target runs locally,
\* a set one over the MixRemote connection if there is one, else by one-shot ssh
_execute_command(cmd, rc) ==
    IF remote_target # None
    THEN IF ssh_connection
         THEN [cmd |-> cmd, how |-> "ssh_connection", target |-> remote_target, rc |-> rc]
         ELSE [cmd |-> cmd, how |-> "ssh_oneshot", target |-> remote_target, rc |-> rc]
    ELSE [cmd |-> cmd, how |-> "local_shell", target |-> None, rc |-> rc]

\* a plausible slip: the queue file is written before the command is appended
SavePendingStale(pending_after) ==
    [written |-> TRUE, commands |-> SubSeq(pending_after, 1, Len(pending_after) - 1)]

\* MixSubprocess.save_pending -> write_pending: the file holds the whole list
save_pending(pending_after) ==
    [written |-> TRUE, commands |-> pending_after]

\* a plausible slip: a command that is already pending is not appended again
EnqueueOnce(cmd, perm) ==
    /\ subprocess_pending' = IF cmd \in Range(subprocess_pending)
                             THEN subprocess_pending
                             ELSE Append(subprocess_pending, cmd)
    /\ queue_file' = IF subprocess_auto_persist
                     THEN save_pending(subprocess_pending')
                     ELSE queue_file
    /\ last' = [op |-> "s_system", cmd |-> cmd, perm |-> perm, ret |-> 0,
                execs |-> <<>>, created |-> 0, ret_none |-> FALSE,
                diag |-> Diag(IF perm = "dry-run" THEN "[DRY-RUN]" ELSE "[QUEUED]",
                              cmd, None)]

\* s_system, queue and dry-run branches: append, persist if auto_persist, return 0
Enqueue(cmd, perm) ==
    /\ subprocess_pending' = Append(subprocess_pending, cmd)
    /\ queue_file' = IF subprocess_auto_persist
                     THEN save_pending(subprocess_pending')
                     ELSE queue_file
    /\ last' = [op |-> "s_system", cmd |-> cmd, perm |-> perm, ret |-> 0,
                execs |-> <<>>, created |-> 0, ret_none |-> FALSE,
                diag |-> Diag(IF perm = "dry-run" THEN "[DRY-RUN]" ELSE "[QUEUED]",
                              cmd, None)]

\* a plausible slip: a refused command is also recorded as pending
RefuseAndRecord(cmd) ==
    /\ last' = [op |-> "s_system", cmd |-> cmd, perm |-> "deny", ret |-> 127,
                execs |-> <<>>, created |-> 0, ret_none |-> FALSE,
                diag |-> Diag("[DENIED]", cmd, None)]
    /\ subprocess_pending' = Append(subprocess_pending, cmd)
    /\ UNCHANGED queue_file

\* a plausible slip: the refusal is reported only through the return value
RefuseSilently(cmd) ==
    /\ last' = [op |-> "s_system", cmd |-> cmd, perm |-> "deny", ret |-> 127,
                execs |-> <<>>, created |-> 0, ret_none |-> FALSE,
                diag |-> NoDiag]
    /\ UNCHANGED << subprocess_pending, queue_file >>

\* s_system, deny branch: write "[DENIED] cmd" to stderr, return 127
Refuse(cmd) ==
    /\ last' = [op |-> "s_system", cmd |-> cmd, perm |-> "deny", ret |-> 127,
                execs |-> <<>>, created |-> 0, ret_none |-> FALSE,
                diag |-> Diag("[DENIED]", cmd, None)]
    /\ UNCHANGED << subprocess_pending, queue_file >>

\* s_system, allow branch: return self._execute_command(cmd)
Execute(cmd) ==
    /\ \E rc \in ExitCodes :
          LET e == _execute_command(cmd, rc)
          IN  last' = [op |-> "s_system", cmd |-> cmd, perm |-> "allow",
                       ret |-> e.rc, execs |-> << e >>, created |-> 0,
                       ret_none |-> FALSE,
                       diag |-> Diag("[EXEC]", cmd, remote_target)]
    /\ UNCHANGED << subprocess_pending, queue_file >>

\* a plausible slip: the request is classified before dry-run is looked at, so
\* that a deny-listed command is refused in dry-run too
SSystemClassifyFirst(cmd) ==
    /\ ncalls < MaxCalls
    /\ ncalls' = ncalls + 1
    /\ LET permission == _check_permission(cmd)
       IN  CASE permission = "deny" -> Refuse(cmd)
             [] permission # "deny" /\ subprocess_dry_run -> Enqueue(cmd, "dry-run")
             [] permission = "queue" /\ ~subprocess_dry_run -> Enqueue(cmd, "queue")
             [] permission = "allow" /\ ~subprocess_dry_run -> Execute(cmd)
    /\ UNCHANGED << subprocess_approved, file_writes_pending, sessions >>
    /\ UNCHANGED config_vars
    /\ UNCHANGED vfs_vars

\* MixSubprocess.s_system
s_system(cmd) ==
    /\ ncalls < MaxCalls
    /\ ncalls' = ncalls + 1
    /\ IF subprocess_dry_run
       THEN Enqueue(cmd, "dry-run")
       ELSE LET permission == _check_permission(cmd)
            IN  CASE permission = "deny"  -> Refuse(cmd)
                  [] permission = "queue" -> Enqueue(cmd, "queue")
                  [] permission = "allow" -> Execute(cmd)
    /\ UNCHANGED << subprocess_approved, file_writes_pending, sessions >>
    /\ UNCHANGED config_vars
    /\ UNCHANGED vfs_vars

-----------------------------------------------------------------------------
(* Approval *)

\* list.remove(x): the first entry equal to x is removed
RemoveFirst(s, x) ==
    LET hits == {i \in DOMAIN s : s[i] = x}
    IN  IF hits = {} THEN s
        ELSE LET k == CHOOSE i \in hits : \A j \in hits : i <= j
             IN  SubSeq(s, 1, k - 1) \o SubSeq(s, k + 1, Len(s))

Served(op, cmd) ==
    [op |-> op, cmd |-> cmd, perm |-> "-", ret |-> 0, execs |-> <<>>,
     created |-> 0, ret_none |-> FALSE, diag |-> NoDiag]

\* MixSubprocess.approve_command
approve_command(cmd) ==
    /\ ncalls < MaxCalls
    /\ ncalls' = ncalls + 1
    /\ subprocess_approved' = subprocess_approved \cup {cmd}
    /\ subprocess_pending' = RemoveFirst(subprocess_pending, cmd)
    /\ last' = Served("approve_command", cmd)
    /\ UNCHANGED << file_writes_pending, queue_file, sessions >>
    /\ UNCHANGED config_vars
    /\ UNCHANGED vfs_vars

\* MixSubprocess.approve_all_pending
approve_all_pending ==
    /\ ncalls < MaxCalls
    /\ ncalls' = ncalls + 1
    /\ subprocess_approved' = subprocess_approved \cup Range(subprocess_pending)
    /\ subprocess_pending' = <<>>
    /\ last' = Served("approve_all_pending", S_empty)
    /\ UNCHANGED << file_writes_pending, queue_file, sessions >>
    /\ UNCHANGED config_vars
    /\ UNCHANGED vfs_vars

\* MixSubprocess.load_session_commands
load_session_commands(commands) ==
    /\ ncalls < MaxCalls
    /\ ncalls' = ncalls + 1
    /\ subprocess_approved' = subprocess_approved \cup Range(commands)
    /\ last' = Served("load_session_commands", S_empty)
    /\ UNCHANGED << subprocess_pending, file_writes_pending, queue_file, sessions >>
    /\ UNCHANGED config_vars
    /\ UNCHANGED vfs_vars

-----------------------------------------------------------------------------
(* Write tracking and finalization *)

\* the VFS records an intended write while write tracking is on
track_write(w) ==
    /\ vfs_track_writes
    /\ ncalls < MaxCalls
    /\ ncalls' = ncalls + 1
    /\ file_writes_pending' = Append(file_writes_pending, w)
    /\ last' = Served("track_write", S_empty)
    /\ UNCHANGED << subprocess_pending, subprocess_approved, queue_file, sessions >>
    /\ UNCHANGED config_vars
    /\ UNCHANGED vfs_vars

\* a plausible slip: the session lists the newest command first
CreateSessionNewestFirst(commands, pending_writes) ==
    [commands |-> [i \in DOMAIN commands |-> commands[Len(commands) + 1 - i]],
     pending_writes |-> pending_writes, status |-> "pending"]

\* create_session: the Session that is built and saved
create_session(commands, pending_writes) ==
    [commands |-> commands, pending_writes |-> pending_writes, status |-> "pending"]

\* finalize_session, lines 217-223: the writes as dicts, in order
PendingWriteDicts(writes) ==
    [i \in DOMAIN writes |-> WriteToDict(writes[i])]

\* a plausible slip: finalization is skipped as soon as no command is pending
NothingToReviewCommandsOnly(pending, writes) == pending = <<>>

\* finalize_session, line 212: nothing was queued
NothingToReview(pending, writes) == pending = <<>> /\ writes = <<>>

\* a plausible slip: the session is created but the two lists are not cleared
FinalizeSessionKeepsLists ==
    /\ ncalls < MaxCalls
    /\ ncalls' = ncalls + 1
    /\ IF NothingToReview(subprocess_pending, file_writes_pending)
       THEN /\ last' = [Served("finalize_session", S_empty) EXCEPT !.ret_none = TRUE]
            /\ UNCHANGED sessions
       ELSE /\ sessions' = Append(sessions,
                   create_session(subprocess_pending,
                                  PendingWriteDicts(file_writes_pending)))
            /\ last' = [Served("finalize_session", S_empty) EXCEPT !.created = 1]
    /\ UNCHANGED << subprocess_pending, file_writes_pending >>
    /\ UNCHANGED << subprocess_approved, queue_file >>
    /\ UNCHANGED config_vars
    /\ UNCHANGED vfs_vars

\* MixSubprocess.finalize_session
finalize_session ==
    /\ ncalls < MaxCalls
    /\ ncalls' = ncalls + 1
    /\ IF NothingToReview(subprocess_pending, file_writes_pending)
       THEN /\ last' = [Served("finalize_session", S_empty) EXCEPT !.ret_none = TRUE]
            /\ UNCHANGED << subprocess_pending, file_writes_pending, sessions >>
       ELSE /\ sessions' = Append(sessions,
                   create_session(subprocess_pending,
                                  PendingWriteDicts(file_writes_pending)))
            /\ subprocess_pending' = <<>>
            /\ file_writes_pending' = <<>>
            /\ last' = [Served("finalize_session", S_empty) EXCEPT !.created = 1]
    /\ UNCHANGED << subprocess_approved, queue_file >>
    /\ UNCHANGED config_vars
    /\ UNCHANGED vfs_vars

-----------------------------------------------------------------------------
(* The run *)

\* The state after construction and option parsing: the flags as the command
\* line and the class attributes can set them, the sets as load_profile()
\* leaves them, nothing pending or approved, no queue file written by this run.
\* Failing file writes are not modelled.
Init ==
    /\ subprocess_dry_run \in BOOLEAN
    /\ vfs_track_writes = subprocess_dry_run
    /\ subprocess_auto_persist \in BOOLEAN
    /\ remote_target \in {None, "user@host"}
    /\ ssh_connection \in BOOLEAN
    /\ (remote_target = None => ~ssh_connection)
    /\ \E p \in Profiles : /\ subprocess_always_deny = p.deny
                           /\ subprocess_auto_approve = p.auto
    /\ subprocess_pending = <<>>
    /\ subprocess_approved = {}
    /\ file_writes_pending = <<>>
    /\ queue_file = [written |-> FALSE, commands |-> <<>>]
    /\ sessions = <<>>
    /\ last = NoCall
    /\ ncalls = 0
    /\ vpath = <<>>
    /\ tmp_bound = FALSE
    /\ IdleExt

Next ==
    \/ \E c \in Cmd : s_system(c) /\ UNCHANGED ext_vars
    \/ \E c \in Cmd : approve_command(c) /\ UNCHANGED ext_vars
    \/ approve_all_pending /\ UNCHANGED ext_vars
    \/ \E l \in SessionCommandLists : load_session_commands(l) /\ UNCHANGED ext_vars
    \/ \E w \in Writes : track_write(w) /\ UNCHANGED ext_vars
    \/ finalize_session /\ UNCHANGED ext_vars

Spec == Init /\ [][Next]_vars

-----------------------------------------------------------------------------
(* The controller: interact.main from its options to the end of the run *)

\* --session-id: none given, a stored session, or an id with no stored session
SessionOptions ==
    { NoSession, [id |-> "missing", found |-> FALSE, commands |-> <<>>] }
    \cup { [id |-> "stored", found |-> TRUE, commands |-> l] : l \in SessionCommandLists }

\* --approved-commands: the JSON list given, [] when the option is absent
ApprovedCommandOptions == { <<>>, << S_make >> }

\* the command lines main() is started with
Options ==
    [ dry_run : BOOLEAN, debug : BOOLEAN, target : {None, "user@host"},
      session : SessionOptions, approved_commands : ApprovedCommandOptions ]

\* a plausible slip: --dry-run switches on dry-run only
ParseOptionsDryRunOnly(o, track_default) ==
    [ subprocess_dry_run |-> o.dry_run,
      vfs_track_writes   |-> track_default,
      remote_target      |-> o.target ]

\* main, the option loop: --dry-run sets both subprocess_dry_run and
\* vfs_track_writes, --target sets remote_target; an absent option leaves the
\* class attribute as it was
ParseOptions(o, track_default) ==
    [ subprocess_dry_run |-> o.dry_run,
      vfs_track_writes   |-> IF o.dry_run THEN TRUE ELSE track_default,
      remote_target      |-> o.target ]

\* MixSubprocess.load_profile: the two sets are updated in place with the
\* profile that config.load_profile() returned
load_profile(p) ==
    /\ subprocess_auto_approve' = subprocess_auto_approve \cup p.auto
    /\ subprocess_always_deny' = subprocess_always_deny \cup p.deny

\* main, lines 80-119
main_options ==
    /\ pc = "options"
    /\ pc' = "profile"
    /\ LET a == ParseOptions(opt, vfs_track_writes)
       IN  /\ subprocess_dry_run' = a.subprocess_dry_run
           /\ vfs_track_writes' = a.vfs_track_writes
           /\ remote_target' = a.remote_target
    /\ UNCHANGED << subprocess_auto_persist, ssh_connection,
                    subprocess_always_deny, subprocess_auto_approve >>
    /\ UNCHANGED << engine_vars, vfs_vars, opt, requested, own, profile_files,
                    audit_vars, host, review_vars, service_vars >>

\* main, line 235
main_load_profile ==
    /\ pc = "profile"
    /\ pc' = "preapprove"
    /\ \E p \in Profiles : load_profile(p)
    /\ UNCHANGED << subprocess_dry_run, vfs_track_writes, subprocess_auto_persist,
                    remote_target, ssh_connection >>
    /\ UNCHANGED << engine_vars, vfs_vars, opt, requested, own, profile_files,
                    audit_vars, host, review_vars, service_vars >>

\* main, lines 238-239: subprocess_approved is a set and a set has no
\* extend(), so a non-empty list ends main() with an AttributeError
main_preapprove ==
    /\ pc = "preapprove"
    /\ pc' = IF opt.approved_commands # <<>> THEN "crashed" ELSE "session"
    /\ UNCHANGED << config_vars, engine_vars, vfs_vars, opt, requested, own,
                    profile_files, audit_vars, host, review_vars, service_vars >>

\* main, lines 243-250: a stored session's commands are loaded as approved;
\* an id with no stored session only prints a warning
main_load_session ==
    /\ pc = "session"
    /\ pc' = "run"
    /\ IF opt.session.found
       THEN load_session_commands(opt.session.commands)
       ELSE UNCHANGED << config_vars, engine_vars, vfs_vars >>
    /\ UNCHANGED << opt, requested, own, profile_files, audit_vars, host, review_vars, service_vars >>

\* main, line 252, run(): the child calls system(c). One call of the bound
\* is kept for the finalization that follows the run
main_request(c) ==
    /\ pc = "run"
    /\ ncalls + 1 < MaxCalls
    /\ s_system(c)
    /\ requested' = Append(requested, [cmd |-> c, perm |-> last'.perm])
    /\ UNCHANGED << pc, opt, own, profile_files, audit_vars, host, review_vars, service_vars >>

\* main, line 252, run(): the child writes a file under write tracking
main_write(w) ==
    /\ pc = "run"
    /\ ncalls + 1 < MaxCalls
    /\ track_write(w)
    /\ UNCHANGED ext_vars

\* main, line 252: run() returns when the child is done
main_child_exit ==
    /\ pc = "run"
    /\ pc' = "exited"
    /\ UNCHANGED << config_vars, engine_vars, vfs_vars, opt, requested, own,
                    profile_files, audit_vars, host, review_vars, service_vars >>

\* main, lines 255-256: the session is finalized in dry-run mode only
main_finalize ==
    /\ pc = "exited"
    /\ pc' = "done"
    /\ IF subprocess_dry_run
       THEN finalize_session
       ELSE UNCHANGED << config_vars, engine_vars, vfs_vars >>
    /\ UNCHANGED << opt, requested, own, profile_files, audit_vars, host, review_vars, service_vars >>

\* main() is entered: the class attributes have their defaults (dry-run off,
\* auto-persist on, no target, empty sets and lists); whether write tracking
\* is on by default is decided outside this source tree, so either value
InitMain ==
    /\ pc = "options"
    /\ opt \in Options
    /\ requested = <<>>
    /\ subprocess_dry_run = FALSE
    /\ vfs_track_writes \in BOOLEAN
    /\ subprocess_auto_persist = TRUE
    /\ remote_target = None
    /\ ssh_connection \in BOOLEAN
    /\ (opt.target = None => ~ssh_connection)
    /\ subprocess_always_deny = {}
    /\ subprocess_auto_approve = {}
    /\ subprocess_pending = <<>>
    /\ subprocess_approved = {}
    /\ file_writes_pending = <<>>
    /\ queue_file = [written |-> FALSE, commands |-> <<>>]
    /\ sessions = <<>>
    /\ last = NoCall
    /\ ncalls = 0
    /\ vpath = <<>>
    /\ tmp_bound = FALSE
    /\ own = [i \in Instances |-> NothingOwn]
    /\ profile_files = NoProfileFiles
    /\ audit_file = <<>>
    /\ audit_proc = [p \in Procs |-> NoLogCall]
    /\ audit_lock = 0
    /\ host = LinuxX86
    /\ store = [i \in SessionIds |-> NotStored]
    /\ tui = NoTui
    /\ runs = <<>>
    /\ IdleServices

NextMain ==
    \/ main_options
    \/ main_load_profile
    \/ main_preapprove
    \/ main_load_session
    \/ \E c \in Cmd : main_request(c)
    \/ \E w \in Writes : main_write(w)
    \/ main_child_exit
    \/ main_finalize

SpecMain == InitMain /\ [][NextMain]_vars

-----------------------------------------------------------------------------
(* Several dispatcher instances in one process *)

\* self.subprocess_pending, self.subprocess_approved, self.subprocess_auto_approve
\* and self.subprocess_always_deny as instance i reads them: no method ever
\* assigns one of these names on the instance, so each resolves to the class
\* attribute, the one list or set object that append/add/update change in place
Seen(i) ==
    [ pending  |-> subprocess_pending,
      approved |-> subprocess_approved,
      auto     |-> subprocess_auto_approve,
      deny     |-> subprocess_always_deny ]

\* SandboxedProc(stdin, stdout): MixSubprocess has no __init__, so creating an
\* instance leaves the class attributes as they are
inst_construct(i) ==
    /\ ~own[i].made
    /\ own' = [own EXCEPT ![i].made = TRUE]
    /\ UNCHANGED << config_vars, engine_vars, vfs_vars, main_vars, profile_files,
                    audit_vars, host, review_vars, service_vars >>

\* instance i: load_profile()
inst_load_profile(i, p) ==
    /\ own[i].made
    /\ ncalls < MaxCalls
    /\ ncalls' = ncalls + 1
    /\ load_profile(p)
    /\ last' = Served("load_profile", S_empty)
    /\ own' = [own EXCEPT ![i].auto = @ \cup p.auto, ![i].deny = @ \cup p.deny]
    /\ UNCHANGED << subprocess_dry_run, vfs_track_writes, subprocess_auto_persist,
                    remote_target, ssh_connection >>
    /\ UNCHANGED << subprocess_pending, subprocess_approved, file_writes_pending,
                    queue_file, sessions >>
    /\ UNCHANGED << vfs_vars, main_vars, profile_files, audit_vars, host, review_vars, service_vars >>

\* instance i: s_system(c)
inst_system(i, c) ==
    /\ own[i].made
    /\ s_system(c)
    /\ own' = IF last'.perm \in {"queue", "dry-run"}
              THEN [own EXCEPT ![i].pending = Append(@, c)]
              ELSE own
    /\ UNCHANGED << main_vars, profile_files, audit_vars, host, review_vars, service_vars >>

\* instance i: approve_command(c)
inst_approve(i, c) ==
    /\ own[i].made
    /\ approve_command(c)
    /\ own' = [own EXCEPT ![i].approved = @ \cup {c}]
    /\ UNCHANGED << main_vars, profile_files, audit_vars, host, review_vars, service_vars >>

\* the class attributes at import, and no instance yet
InitInstances ==
    /\ subprocess_dry_run \in BOOLEAN
    /\ vfs_track_writes = subprocess_dry_run
    /\ subprocess_auto_persist = TRUE
    /\ remote_target = None
    /\ ssh_connection = FALSE
    /\ subprocess_always_deny = {}
    /\ subprocess_auto_approve = {}
    /\ subprocess_pending = <<>>
    /\ subprocess_approved = {}
    /\ file_writes_pending = <<>>
    /\ queue_file = [written |-> FALSE, commands |-> <<>>]
    /\ sessions = <<>>
    /\ last = NoCall
    /\ ncalls = 0
    /\ vpath = <<>>
    /\ tmp_bound = FALSE
    /\ IdleExt

NextInstances ==
    \/ \E i \in Instances : inst_construct(i)
    \/ \E i \in Instances : \E p \in Profiles : inst_load_profile(i, p)
    \/ \E i \in Instances : \E c \in Cmd : inst_system(i, c)
    \/ \E i \in Instances : \E c \in Cmd : inst_approve(i, c)

SpecInstances == InitInstances /\ [][NextInstances]_vars

-----------------------------------------------------------------------------
(* The security profile: config.load_profile *)

\* DEFAULT_PROFILE, abridged to one entry per list
DEFAULT_PROFILE == [auto |-> {S_ls}, deny |-> {S_rm}]

\* a profile.json as it can be found: absent; present but unreadable or not
\* JSON ("invalid"); JSON that is not an object, such as a list
\* ("nonobject"); a JSON object with both, one or none of the two keys
ProfileFileStates ==
    { Absent,
      [kind |-> "invalid",   keys |-> {}, auto |-> {}, deny |-> {}],
      [kind |-> "nonobject", keys |-> {}, auto |-> {}, deny |-> {}],
      [kind |-> "object", keys |-> {"auto_approve", "always_deny"},
       auto |-> {S_make}, deny |-> {S_rm_x}],
      [kind |-> "object", keys |-> {"auto_approve", "always_deny"},
       auto |-> {S_ls, S_make}, deny |-> {}],
      [kind |-> "object", keys |-> {"auto_approve"},
       auto |-> {S_make}, deny |-> {}],
      [kind |-> "object", keys |-> {}, auto |-> {}, deny |-> {}] }

\* the files load_profile() can meet; without a .shannot directory there is
\* no project-local file
ProfileFiles ==
    { f \in [project_root : BOOLEAN, local : ProfileFileStates,
             global : ProfileFileStates] :
        ~f.project_root => f.local = Absent }

\* get_profile_path: the project-local file if find_project_root() found a
\* .shannot directory and the file exists, else the global file if it
\* exists, else None
get_profile_path(f) ==
    IF f.project_root /\ f.local.kind # "absent" THEN "local"
    ELSE IF f.global.kind # "absent" THEN "global"
    ELSE None

\* config.load_profile: DEFAULT_PROFILE when there is no path; else the two
\* keys of the parsed object, [] for a missing key; OSError and
\* JSONDecodeError give DEFAULT_PROFILE; data.get on a value that is not an
\* object raises AttributeError, which is not caught
config_load_profile(f) ==
    LET profile_path == get_profile_path(f)
        data == IF profile_path = "local" THEN f.local ELSE f.global
    IN  IF profile_path = None
        THEN [raised |-> "-", profile |-> DEFAULT_PROFILE]
        ELSE CASE data.kind = "invalid" ->
                    [raised |-> "-", profile |-> DEFAULT_PROFILE]
               [] data.kind = "nonobject" ->
                    [raised |-> "AttributeError", profile |-> [auto |-> {}, deny |-> {}]]
               [] data.kind = "object" ->
                    [raised |-> "-",
                     profile |-> [auto |-> IF "auto_approve" \in data.keys
                                           THEN data.auto ELSE {},
                                  deny |-> IF "always_deny" \in data.keys
                                           THEN data.deny ELSE {}]]

\* MixSubprocess.load_profile() with the files as they are: the profile that
\* config.load_profile() returns is added to the two sets; an exception it
\* raises leaves them as they were
profile_load ==
    /\ last.op = "init"
    /\ LET r == config_load_profile(profile_files)
       IN  /\ last' = [op |-> "load_profile", raised |-> r.raised,
                       profile |-> r.profile]
           /\ IF r.raised = "-"
              THEN load_profile(r.profile)
              ELSE UNCHANGED << subprocess_auto_approve, subprocess_always_deny >>
    /\ UNCHANGED << subprocess_dry_run, vfs_track_writes, subprocess_auto_persist,
                    remote_target, ssh_connection >>
    /\ UNCHANGED << subprocess_pending, subprocess_approved, file_writes_pending,
                    queue_file, sessions, ncalls >>
    /\ UNCHANGED << vfs_vars, main_vars, own, profile_files, audit_vars, host, review_vars, service_vars >>

\* the class attributes at import and the profile files as they may be
InitProfile ==
    /\ subprocess_dry_run = FALSE
    /\ vfs_track_writes = FALSE
    /\ subprocess_auto_persist = TRUE
    /\ remote_target = None
    /\ ssh_connection = FALSE
    /\ subprocess_always_deny = {}
    /\ subprocess_auto_approve = {}
    /\ subprocess_pending = <<>>
    /\ subprocess_approved = {}
    /\ file_writes_pending = <<>>
    /\ queue_file = [written |-> FALSE, commands |-> <<>>]
    /\ sessions = <<>>
    /\ last = [op |-> "init", raised |-> "-", profile |-> [auto |-> {}, deny |-> {}]]
    /\ ncalls = 0
    /\ vpath = <<>>
    /\ tmp_bound = FALSE
    /\ pc = "method"
    /\ opt = NoOptions
    /\ requested = <<>>
    /\ own = [i \in Instances |-> NothingOwn]
    /\ profile_files \in ProfileFiles
    /\ audit_file = <<>>
    /\ audit_proc = [p \in Procs |-> NoLogCall]
    /\ audit_lock = 0
    /\ host = LinuxX86
    /\ store = [i \in SessionIds |-> NotStored]
    /\ tui = NoTui
    /\ runs = <<>>
    /\ IdleServices

NextProfile == profile_load

SpecProfile == InitProfile /\ [][NextProfile]_vars

-----------------------------------------------------------------------------
(* The audit log: AuditLogger.log called by concurrent processes *)

\* _get_next_seq reads at most this many bytes from the end of the file
ChunkSize == 4096

\* byte lengths of an event's JSON line with its newline: a short payload,
\* and one whose command or content makes the line longer than a chunk
EventSizes == {200, 5000}

RECURSIVE BytesFrom(_, _)
\* the bytes of the file from the start of line i to the end
BytesFrom(f, i) == IF i > Len(f) THEN 0 ELSE f[i].size + BytesFrom(f, i + 1)

\* AuditLogger._get_next_seq: the last min(4096, size) bytes are split at
\* newlines and, from the last piece backwards, the first piece that parses
\* as JSON gives seq + 1; a piece parses iff it is a whole line, that is iff
\* the line lies wholly inside the chunk; no such piece, or an empty file: 1
_get_next_seq(f) ==
    LET size == BytesFrom(f, 1)
        chunk_size == IF size < ChunkSize THEN size ELSE ChunkSize
        whole == {i \in DOMAIN f : BytesFrom(f, i) <= chunk_size}
    IN  IF size = 0 \/ whole = {} THEN 1
        ELSE LET k == CHOOSE i \in whole : \A j \in whole : j <= i
             IN  f[k].seq + 1

\* log(), open(path, "a"): process p starts to log an event of the given size
log_open(p, size) ==
    /\ audit_proc[p].at = "idle"
    /\ audit_proc[p].done < MaxLogCalls
    /\ audit_proc' = [audit_proc EXCEPT ![p].at = "opened", ![p].size = size]
    /\ UNCHANGED << audit_file, audit_lock >>
    /\ UNCHANGED << config_vars, engine_vars, vfs_vars, main_vars, own, profile_files,
                    host, review_vars, service_vars >>

\* log(), fcntl.flock(f, LOCK_EX): waits until no other process holds the lock
log_lock(p) ==
    /\ audit_proc[p].at = "opened"
    /\ audit_lock = 0
    /\ audit_lock' = p
    /\ audit_proc' = [audit_proc EXCEPT ![p].at = "locked"]
    /\ UNCHANGED audit_file
    /\ UNCHANGED << config_vars, engine_vars, vfs_vars, main_vars, own, profile_files,
                    host, review_vars, service_vars >>

\* log(), seq = self._get_next_seq(path)
log_next_seq(p) ==
    /\ audit_proc[p].at = "locked"
    /\ audit_proc' = [audit_proc EXCEPT ![p].at = "sequenced",
                                         ![p].seq = _get_next_seq(audit_file)]
    /\ UNCHANGED << audit_file, audit_lock >>
    /\ UNCHANGED << config_vars, engine_vars, vfs_vars, main_vars, own, profile_files,
                    host, review_vars, service_vars >>

\* log(), f.write(event.to_json() + "\n"); f.flush()
log_write(p) ==
    /\ audit_proc[p].at = "sequenced"
    /\ audit_file' = Append(audit_file,
                            [seq |-> audit_proc[p].seq, size |-> audit_proc[p].size,
                             pid |-> p, type |-> "command_decision"])
    /\ audit_proc' = [audit_proc EXCEPT ![p].at = "written"]
    /\ UNCHANGED audit_lock
    /\ UNCHANGED << config_vars, engine_vars, vfs_vars, main_vars, own, profile_files,
                    host, review_vars, service_vars >>

\* log(), fcntl.flock(f, LOCK_UN) and the file is closed
log_unlock(p) ==
    /\ audit_proc[p].at = "written"
    /\ audit_lock' = 0
    /\ audit_proc' = [audit_proc EXCEPT ![p].at = "idle", ![p].done = @ + 1]
    /\ UNCHANGED audit_file
    /\ UNCHANGED << config_vars, engine_vars, vfs_vars, main_vars, own, profile_files,
                    host, review_vars, service_vars >>

\* an empty log file and no process inside log()
InitAudit ==
    /\ subprocess_dry_run = FALSE
    /\ vfs_track_writes = FALSE
    /\ subprocess_auto_persist = TRUE
    /\ remote_target = None
    /\ ssh_connection = FALSE
    /\ subprocess_always_deny = {}
    /\ subprocess_auto_approve = {}
    /\ subprocess_pending = <<>>
    /\ subprocess_approved = {}
    /\ file_writes_pending = <<>>
    /\ queue_file = [written |-> FALSE, commands |-> <<>>]
    /\ sessions = <<>>
    /\ last = NoCall
    /\ ncalls = 0
    /\ vpath = <<>>
    /\ tmp_bound = FALSE
    /\ IdleExt

NextAudit ==
    \/ \E p \in Procs : \E size \in EventSizes : log_open(p, size)
    \/ \E p \in Procs : log_lock(p)
    \/ \E p \in Procs : log_next_seq(p)
    \/ \E p \in Procs : log_write(p)
    \/ \E p \in Procs : log_unlock(p)

SpecAudit == InitAudit /\ [][NextAudit]_vars

-----------------------------------------------------------------------------
(* Classification as a function of (command, always_deny, approved,
   auto_approve) *)

\* request strings: empty, blank, plain, with a path, with KEY=VALUE tokens,
\* with "=" inside a path, and a command list
CmdAll == { S_empty, S_blank, S_ls, S_make, S_rm_x, S_bin_rm_x, S_env_rm_x,
            S_env_only, S_eqdir_rm, S_ls_rm_x }

\* what the three sets may hold: executable names and whole strings
Entries == { S_empty, S_rm, S_ls, S_x, S_rm_x, S_env_only }

SmallSets == { e \in SUBSET Entries : Cardinality(e) <= MaxSetSize }

InitClassify ==
    /\ subprocess_dry_run = FALSE
    /\ vfs_track_writes = FALSE
    /\ subprocess_auto_persist = TRUE
    /\ remote_target = None
    /\ ssh_connection = FALSE
    /\ subprocess_always_deny \in SmallSets
    /\ subprocess_auto_approve \in SmallSets
    /\ subprocess_approved \in SmallSets
    /\ subprocess_pending = <<>>
    /\ file_writes_pending = <<>>
    /\ queue_file = [written |-> FALSE, commands |-> <<>>]
    /\ sessions = <<>>
    /\ last = NoCall
    /\ ncalls = 0
    /\ vpath = <<>>
    /\ tmp_bound = FALSE
    /\ IdleExt

\* a plausible slip: a command that was classified queue is remembered as
\* approved
ClassifyAndRemember(cmd) ==
    /\ last' = [Served("_check_permission", cmd) EXCEPT !.perm = _check_permission(cmd)]
    /\ subprocess_approved' = IF _check_permission(cmd) = "queue"
                              THEN subprocess_approved \cup {cmd}
                              ELSE subprocess_approved
    /\ UNCHANGED << subprocess_pending, file_writes_pending, queue_file, sessions >>
    /\ UNCHANGED config_vars
    /\ UNCHANGED vfs_vars

\* one call of _check_permission(cmd); it reads the sets and changes nothing
classify(cmd) ==
    /\ last' = [Served("_check_permission", cmd) EXCEPT !.perm = _check_permission(cmd)]
    /\ UNCHANGED << subprocess_pending, subprocess_approved, file_writes_pending,
                    queue_file, sessions >>
    /\ UNCHANGED config_vars
    /\ UNCHANGED vfs_vars

NextClassify == \E c \in CmdAll : classify(c) /\ UNCHANGED << ncalls, ext_vars >>

SpecClassify == InitClassify /\ [][NextClassify]_vars

\* sets as a profile and earlier approvals leave them, before a sequence of
\* calls of _check_permission
InitRepeat ==
    /\ subprocess_dry_run = FALSE
    /\ vfs_track_writes = FALSE
    /\ subprocess_auto_persist = TRUE
    /\ remote_target = None
    /\ ssh_connection = FALSE
    /\ \E p \in Profiles : /\ subprocess_always_deny = p.deny
                           /\ subprocess_auto_approve = p.auto
    /\ subprocess_approved \in SUBSET {S_make, S_rm_x}
    /\ subprocess_pending \in {<<>>, <<S_make>>}
    /\ file_writes_pending = <<>>
    /\ queue_file = [written |-> FALSE, commands |-> <<>>]
    /\ sessions = <<>>
    /\ last = NoCall
    /\ ncalls = 0
    /\ vpath = <<>>
    /\ tmp_bound = FALSE
    /\ IdleExt

\* the next call in a sequence of calls of _check_permission; the calls and
\* their results are kept in order
classify_next(cmd) ==
    /\ ncalls < MaxCalls
    /\ ncalls' = ncalls + 1
    /\ classify(cmd)
    /\ requested' = Append(requested, [cmd |-> cmd, perm |-> last'.perm])
    /\ UNCHANGED << pc, opt, own, profile_files, audit_vars, host, review_vars, service_vars >>

NextRepeat == \E c \in CmdAll : classify_next(c)

SpecRepeat == InitRepeat /\ [][NextRepeat]_vars

-----------------------------------------------------------------------------
(* _parse_command on every short command text *)

\* the characters that matter to the parse: a letter, "=", "/" and a blank
CmdChars == {"a", "=", "/", " "}

RECURSIVE TextsOfLen(_)
TextsOfLen(n) ==
    IF n = 0 THEN { <<>> }
    ELSE { Append(t, ch) : t \in TextsOfLen(n - 1), ch \in CmdChars }

\* every command text of at most MaxCmdLen characters
CmdTexts == UNION { TextsOfLen(n) : n \in 0..MaxCmdLen }

InitParse ==
    /\ subprocess_dry_run = FALSE
    /\ vfs_track_writes = FALSE
    /\ subprocess_auto_persist = TRUE
    /\ remote_target = None
    /\ ssh_connection = FALSE
    /\ subprocess_always_deny = {}
    /\ subprocess_auto_approve = {}
    /\ subprocess_approved = {}
    /\ subprocess_pending = <<>>
    /\ file_writes_pending = <<>>
    /\ queue_file = [written |-> FALSE, commands |-> <<>>]
    /\ sessions = <<>>
    /\ last \in { [op |-> "init", cmd |-> c, base |-> S_empty, parts |-> <<>>] :
                   c \in CmdTexts }
    /\ ncalls = 0
    /\ vpath = <<>>
    /\ tmp_bound = FALSE
    /\ IdleExt

\* one call of _parse_command on the text at hand
parse ==
    /\ last.op = "init"
    /\ last' = [op |-> "_parse_command", cmd |-> last.cmd,
                base |-> _parse_command(last.cmd)[1],
                parts |-> _parse_command(last.cmd)[2]]
    /\ UNCHANGED << config_vars, subprocess_pending, subprocess_approved,
                    file_writes_pending, queue_file, sessions, ncalls >>
    /\ UNCHANGED << vfs_vars, ext_vars >>

NextParse == parse

SpecParse == InitParse /\ [][NextParse]_vars

-----------------------------------------------------------------------------
(* Sessions and their review: sandboxlib/session.py, run_session.py, approve.py *)

SessionNames == {"fix"}

\* the queued commands of a new session
ReviewCommands == { <<S_make>> }

\* the number of sessions created so far: created_at of the newest one
Created == IF \A i \in SessionIds : ~store[i].exists THEN 0
           ELSE LET n == CHOOSE i \in SessionIds :
                            /\ store[i].exists
                            /\ \A j \in SessionIds : store[j].serial <= store[i].serial
                IN  store[n].serial

\* Session.load: the object in memory holds what was stored when it was loaded
Load(st, i) == [id |-> i, rec |-> st[i]]

\* a reloaded Session object that the result and output views only display:
\* its fields are not followed
Shown(i) == [id |-> i, rec |-> NotStored]

\* Session.save of an object whose status was set to status
Save(st, obj, status) == [st EXCEPT ![obj.id] = [obj.rec EXCEPT !.status = status]]

RECURSIVE NewestFirst(_, _)
NewestFirst(ids, st) ==
    IF ids = {} THEN <<>>
    ELSE LET n == CHOOSE i \in ids : \A j \in ids : st[j].serial <= st[i].serial
         IN  << Load(st, n) >> \o NewestFirst(ids \ {n}, st)

\* Session.list_pending(): the stored sessions of status pending, newest first
list_pending(st) ==
    NewestFirst({i \in SessionIds : st[i].exists /\ st[i].status = "pending"}, st)

\* what the run_session child does: it runs the script to an exit code, or
\* fails with an uncaught error before the run (writing the temporary script
\* is outside any try); "nospawn" is subprocess.run itself raising
ChildOutcomes ==
    { [kind |-> "ran", code |-> 0], [kind |-> "ran", code |-> 1],
      [kind |-> "died", code |-> 1], [kind |-> "nospawn", code |-> 1] }

\* python -m sandboxlib.run_session <id>: no look at the status; the run, then
\* status executed or failed with the exit code
run_session(st, rn, i, out) ==
    IF out.kind = "ran"
    THEN [store |-> [st EXCEPT ![i].status = IF out.code = 0 THEN "executed" ELSE "failed",
                               ![i].exit_code = out.code],
          runs  |-> Append(rn, [id |-> i, status |-> st[i].status]),
          code  |-> out.code]
    ELSE [store |-> st, runs |-> rn, code |-> out.code]

\* execute_session(session): ValueError unless the object's status is approved
\* or pending; the child; then session.exit_code or result.returncode of the
\* reloaded session; on an exception the object is saved as failed
execute_session(st, rn, obj, status, out) ==
    IF status \notin {"approved", "pending"}
    THEN [store |-> st, runs |-> rn, code |-> 0, raised |-> TRUE]
    ELSE IF out.kind = "nospawn"
    THEN [store |-> [st EXCEPT ![obj.id] = [obj.rec EXCEPT !.status = "failed",
                                                           !.exit_code = 1]],
          runs |-> rn, code |-> 1, raised |-> FALSE]
    ELSE LET child == run_session(st, rn, obj.id, out)
         IN  [store |-> child.store, runs |-> child.runs,
              code |-> IF child.store[obj.id].exit_code # 0
                       THEN child.store[obj.id].exit_code ELSE child.code,
              raised |-> FALSE]

RECURSIVE execute_sessions(_, _, _, _, _)
\* execute_sessions(sessions), from session number k on: status approved,
\* save, execute_session, reload
execute_sessions(st, rn, objs, outs, k) ==
    IF k > Len(objs) THEN [store |-> st, runs |-> rn, results |-> <<>>]
    ELSE LET one  == execute_session(Save(st, objs[k], "approved"), rn,
                                     objs[k], "approved", outs[k])
             rest == execute_sessions(one.store, one.runs, objs, outs, k + 1)
         IN  [store |-> rest.store, runs |-> rest.runs,
              results |-> << [id |-> objs[k].id, code |-> one.code] >> \o rest.results]

RECURSIVE reject_sessions(_, _, _)
\* reject_sessions(sessions), from session number k on
reject_sessions(st, objs, k) ==
    IF k > Len(objs) THEN st
    ELSE reject_sessions(Save(st, objs[k], "rejected"), objs, k + 1)

\* a view of the TUI: its kind, the Session objects it holds, and for the
\* list and the result view the cursor, the selection and the exit codes
View(kind, objs, codes) ==
    [kind |-> kind, sessions |-> objs, cursor |-> 0, selected |-> {},
     codes |-> codes]

SessionListView(objs) == View("list", objs, <<>>)

\* handle_key returns None, a View or an Action; view is the view after the key
Handled(view, act, objs) == [view |-> view, act |-> act, sessions |-> objs]

RECURSIVE Pick(_, _, _)
\* [self.sessions[i] for i in sorted(self.selected)], from index i on
Pick(objs, selected, i) ==
    IF i > Len(objs) THEN <<>>
    ELSE (IF (i - 1) \in selected THEN << objs[i] >> ELSE <<>>)
         \o Pick(objs, selected, i + 1)

\* the keys read_single_key can return that a view looks at
Keys == {"q", "j", "k", " ", "a", "n", "Enter", "x", "r", "v", "b", "Esc", "y"}

SessionListView_handle_key(v, key) ==
    LET n == Len(v.sessions)
    IN  IF n = 0
        THEN Handled(v, IF key = "q" THEN "quit" ELSE "-", <<>>)
        ELSE CASE key = "q" -> Handled(v, "quit", <<>>)
               [] key = "j" -> Handled([v EXCEPT !.cursor = (v.cursor + 1) % n], "-", <<>>)
               [] key = "k" -> Handled([v EXCEPT !.cursor = (v.cursor + n - 1) % n], "-", <<>>)
               [] key = " " -> Handled([v EXCEPT !.selected =
                                          IF v.cursor \in v.selected
                                          THEN v.selected \ {v.cursor}
                                          ELSE v.selected \cup {v.cursor}], "-", <<>>)
               [] key = "a" -> Handled([v EXCEPT !.selected = 0..(n - 1)], "-", <<>>)
               [] key = "n" -> Handled([v EXCEPT !.selected = {}], "-", <<>>)
               [] key = "Enter" -> Handled(v, "view", << v.sessions[v.cursor + 1] >>)
               [] key = "x" -> IF v.selected # {}
                               THEN Handled(v, "execute", Pick(v.sessions, v.selected, 1))
                               ELSE Handled(v, "-", <<>>)
               [] key = "r" -> IF v.selected # {}
                               THEN Handled(v, "reject", Pick(v.sessions, v.selected, 1))
                               ELSE Handled(v, "-", <<>>)
               [] OTHER -> Handled(v, "-", <<>>)

\* j and k only scroll the text
SessionDetailView_handle_key(v, key) ==
    CASE key \in {"b", "Esc"} -> Handled(v, "back", <<>>)
      [] key = "v" -> Handled(v, "ScriptView", v.sessions)
      [] key = "x" -> Handled(v, "execute", v.sessions)
      [] key = "r" -> Handled(v, "reject", v.sessions)
      [] OTHER -> Handled(v, "-", <<>>)

ScriptView_handle_key(v, key) ==
    CASE key \in {"b", "Esc"} -> Handled(v, "back", <<>>)
      [] key = "x" -> Handled(v, "execute", v.sessions)
      [] key = "r" -> Handled(v, "reject", v.sessions)
      [] OTHER -> Handled(v, "-", <<>>)

\* a plausible slip: every key but the refusals confirms
ConfirmViewDefaultYes(v, key) ==
    CASE key \in {"n", "Esc", "q"} -> Handled(v, "cancelled", <<>>)
      [] OTHER -> Handled(v, "confirmed", v.sessions)

ConfirmView_handle_key(v, key) ==
    CASE key = "y" -> Handled(v, "confirmed", v.sessions)
      [] key \in {"n", "Esc", "q"} -> Handled(v, "cancelled", <<>>)
      [] OTHER -> Handled(v, "-", <<>>)

ResultView_handle_key(v, key) ==
    LET n == Len(v.sessions)
    IN  CASE key = "q" -> Handled(v, "quit", <<>>)
          [] key \in {"b", "Esc"} -> Handled(v, "back", <<>>)
          [] key = "j" -> Handled([v EXCEPT !.cursor = (v.cursor + 1) % n], "-", <<>>)
          [] key = "k" -> Handled([v EXCEPT !.cursor = (v.cursor + n - 1) % n], "-", <<>>)
          [] key = "v" -> Handled(v, "OutputView", << v.sessions[v.cursor + 1] >>)
          [] OTHER -> Handled(v, "-", <<>>)

OutputView_handle_key(v, key) ==
    CASE key \in {"b", "Esc"} -> Handled(v, "back", <<>>)
      [] OTHER -> Handled(v, "-", <<>>)

\* current_view().handle_key(key)
handle_key(v, key) ==
    CASE v.kind = "list"    -> SessionListView_handle_key(v, key)
      [] v.kind = "detail"  -> SessionDetailView_handle_key(v, key)
      [] v.kind = "script"  -> ScriptView_handle_key(v, key)
      [] v.kind = "confirm" -> ConfirmView_handle_key(v, key)
      [] v.kind = "result"  -> ResultView_handle_key(v, key)
      [] v.kind = "output"  -> OutputView_handle_key(v, key)

\* pop_view(): the bottom view stays
pop_view(stack) == IF Len(stack) > 1 THEN SubSeq(stack, 1, Len(stack) - 1) ELSE stack

\* refresh_list(): a new list view of the pending sessions at the bottom
refresh_list(stack, st) == << SessionListView(list_pending(st)) >> \o Tail(stack)

ReviewCall(op, ids, results) ==
    [op |-> op, ids |-> ids, results |-> results]

Ids(objs) == [k \in DOMAIN objs |-> objs[k].id]

InitReview ==
    /\ subprocess_dry_run = FALSE
    /\ vfs_track_writes = FALSE
    /\ subprocess_auto_persist = TRUE
    /\ remote_target = None
    /\ ssh_connection = FALSE
    /\ subprocess_always_deny = {}
    /\ subprocess_auto_approve = {}
    /\ subprocess_approved = {}
    /\ subprocess_pending = <<>>
    /\ file_writes_pending = <<>>
    /\ queue_file = [written |-> FALSE, commands |-> <<>>]
    /\ sessions = <<>>
    /\ last = ReviewCall("init", <<>>, <<>>)
    /\ ncalls = 0
    /\ vpath = <<>>
    /\ tmp_bound = FALSE
    /\ IdleExt

review_frame ==
    /\ UNCHANGED << config_vars, subprocess_pending, subprocess_approved,
                    file_writes_pending, queue_file, sessions, ncalls >>
    /\ UNCHANGED << vfs_vars, main_vars, own, profile_files, audit_vars, host,
                    service_vars >>

\* create_session: the id is the date, the slug of the name and four hex
\* digits of a uuid4, here one of two values; save() with exist_ok
review_create(name, commands) ==
    /\ Created < MaxSessions
    /\ \E u \in {0, 1} :
          /\ store' = [store EXCEPT ![<< name, u >>] =
                          [exists |-> TRUE, status |-> "pending", commands |-> commands,
                           exit_code |-> 0, serial |-> Created + 1]]
          /\ last' = ReviewCall("create_session", << << name, u >> >>, <<>>)
    /\ runs' = <<>>
    /\ UNCHANGED tui
    /\ review_frame

\* run_tui() up to its first read of a key
tui_open ==
    /\ tui = <<>>
    /\ tui' = << SessionListView(list_pending(store)) >>
    /\ last' = ReviewCall("run_tui", <<>>, <<>>)
    /\ runs' = <<>>
    /\ UNCHANGED store
    /\ review_frame

\* one turn of the loop of run_tui: the key goes to the current view and the
\* view or action it returns is carried out
tui_key(key) ==
    /\ tui # <<>>
    /\ LET top    == tui[Len(tui)]
           result == handle_key(top, key)
           stack  == [tui EXCEPT ![Len(tui)] = result.view]
       IN  CASE result.act = "quit" ->
                  /\ tui' = <<>>
                  /\ last' = ReviewCall("tui_key", <<>>, <<>>)
                  /\ runs' = <<>>
                  /\ UNCHANGED store
             [] result.act \in {"back", "cancelled"} ->
                  /\ tui' = pop_view(stack)
                  /\ last' = ReviewCall("tui_key", <<>>, <<>>)
                  /\ runs' = <<>>
                  /\ UNCHANGED store
             [] result.act = "view" ->
                  /\ tui' = Append(stack, View("detail", result.sessions, <<>>))
                  /\ last' = ReviewCall("tui_key", <<>>, <<>>)
                  /\ runs' = <<>>
                  /\ UNCHANGED store
             [] result.act = "ScriptView" ->
                  /\ tui' = Append(stack, View("script", result.sessions, <<>>))
                  /\ last' = ReviewCall("tui_key", <<>>, <<>>)
                  /\ runs' = <<>>
                  /\ UNCHANGED store
             [] result.act = "OutputView" ->
                  /\ tui' = Append(stack, View("output", result.sessions, <<>>))
                  /\ last' = ReviewCall("tui_key", <<>>, <<>>)
                  /\ runs' = <<>>
                  /\ UNCHANGED store
             [] result.act = "execute" ->
                  /\ tui' = Append(stack, View("confirm", result.sessions, <<>>))
                  /\ last' = ReviewCall("tui_key", <<>>, <<>>)
                  /\ runs' = <<>>
                  /\ UNCHANGED store
             [] result.act = "confirmed" ->
                  /\ \E outs \in [DOMAIN result.sessions -> ChildOutcomes] :
                        LET done == execute_sessions(store, <<>>, result.sessions, outs, 1)
                        IN  /\ store' = done.store
                            /\ runs' = done.runs
                            /\ tui' = Append(refresh_list(pop_view(stack), done.store),
                                             View("result",
                                                  [k \in DOMAIN done.results |->
                                                      Shown(done.results[k].id)],
                                                  [k \in DOMAIN done.results |->
                                                      done.results[k].code]))
                            /\ last' = ReviewCall("tui_key", Ids(result.sessions),
                                                  done.results)
             [] result.act = "reject" ->
                  /\ store' = reject_sessions(store, result.sessions, 1)
                  /\ tui' = << SessionListView(list_pending(store')) >>
                  /\ last' = ReviewCall("tui_key", Ids(result.sessions), <<>>)
                  /\ runs' = <<>>
             [] OTHER ->
                  /\ tui' = stack
                  /\ last' = ReviewCall("tui_key", <<>>, <<>>)
                  /\ runs' = <<>>
                  /\ UNCHANGED store
    /\ review_frame

\* shannot-approve execute <id> and shannot execute <id>: load, status
\* approved, save, execute_session
cli_execute(i, out) ==
    /\ store[i].exists
    /\ LET obj  == Load(store, i)
           done == execute_session(Save(store, obj, "approved"), <<>>, obj,
                                   "approved", out)
       IN  /\ store' = done.store
           /\ runs' = done.runs
           /\ last' = ReviewCall("cli_execute", << i >>,
                                 << [id |-> i, code |-> done.code] >>)
    /\ UNCHANGED tui
    /\ review_frame

\* python -m sandboxlib.run_session <id>, started by hand
run_session_main(i, out) ==
    /\ store[i].exists
    /\ out.kind # "nospawn"
    /\ LET done == run_session(store, <<>>, i, out)
       IN  /\ store' = done.store
           /\ runs' = done.runs
           /\ last' = ReviewCall("run_session", << i >>, <<>>)
    /\ UNCHANGED tui
    /\ review_frame

NextReview ==
    \/ \E name \in SessionNames, commands \in ReviewCommands : review_create(name, commands)
    \/ tui_open
    \/ \E key \in Keys : tui_key(key)
    \/ \E i \in SessionIds, out \in ChildOutcomes : cli_execute(i, out)
    \/ \E i \in SessionIds, out \in ChildOutcomes : run_session_main(i, out)

SpecReview == InitReview /\ [][NextReview]_vars

\* the TUI alone: sessions are created and reviewed in run_tui
NextTui ==
    \/ \E name \in SessionNames, commands \in ReviewCommands : review_create(name, commands)
    \/ tui_open
    \/ \E key \in Keys : tui_key(key)

SpecTui == InitReview /\ [][NextTui]_vars

-----------------------------------------------------------------------------
(* Struct layouts: shannot/structs.py *)

\* ctypes types on the 64-bit hosts: size and alignment in bytes
c_ubyte    == [size |-> 1, align |-> 1, signed |-> FALSE]
c_char     == [size |-> 1, align |-> 1, signed |-> FALSE]
c_ushort   == [size |-> 2, align |-> 2, signed |-> FALSE]
c_int      == [size |-> 4, align |-> 4, signed |-> TRUE]
c_uint     == [size |-> 4, align |-> 4, signed |-> FALSE]
c_long     == [size |-> 8, align |-> 8, signed |-> TRUE]
c_ulong    == [size |-> 8, align |-> 8, signed |-> FALSE]
c_longlong == [size |-> 8, align |-> 8, signed |-> TRUE]

\* ("name", type) in _fields_
Field(name, type) ==
    [name |-> name, size |-> type.size, align |-> type.align,
     signed |-> type.signed, count |-> 1]

\* ("name", type * n) in _fields_
ArrayField(name, type, n) ==
    [name |-> name, size |-> type.size * n, align |-> type.align,
     signed |-> type.signed, count |-> n]

\* ("name", Timespec) in _fields_: tv_sec and tv_nsec, both c_long
TimespecField(sec, nsec) == << Field(sec, c_long), Field(nsec, c_long) >>

\* Stat on macOS
StatDarwin ==
    << Field("st_dev", c_int), Field("st_mode", c_ushort),
       Field("st_nlink", c_ushort), Field("st_ino", c_ulong),
       Field("st_uid", c_uint), Field("st_gid", c_uint),
       Field("st_rdev", c_int) >>
    \o TimespecField("st_atimespec.tv_sec", "st_atimespec.tv_nsec")
    \o TimespecField("st_mtimespec.tv_sec", "st_mtimespec.tv_nsec")
    \o TimespecField("st_ctimespec.tv_sec", "st_ctimespec.tv_nsec")
    \o TimespecField("st_birthtimespec.tv_sec", "st_birthtimespec.tv_nsec")
    \o << Field("st_size", c_longlong), Field("st_blocks", c_longlong),
          Field("st_blksize", c_int), Field("st_flags", c_uint),
          Field("st_gen", c_uint), Field("st_lspare", c_int),
          ArrayField("st_qspare", c_longlong, 2) >>

\* a plausible slip: the trailing __unused words are left out
StatAarch64NoUnused ==
    << Field("st_dev", c_ulong), Field("st_ino", c_ulong),
       Field("st_mode", c_uint), Field("st_nlink", c_uint),
       Field("st_uid", c_uint), Field("st_gid", c_uint),
       Field("st_rdev", c_ulong), Field("__pad1", c_ulong),
       Field("st_size", c_long), Field("st_blksize", c_int),
       Field("__pad2", c_int), Field("st_blocks", c_long),
       Field("st_atime", c_long), Field("st_atime_nsec", c_long),
       Field("st_mtime", c_long), Field("st_mtime_nsec", c_long),
       Field("st_ctime", c_long), Field("st_ctime_nsec", c_long) >>

\* Stat on Linux aarch64
StatAarch64 ==
    << Field("st_dev", c_ulong), Field("st_ino", c_ulong),
       Field("st_mode", c_uint), Field("st_nlink", c_uint),
       Field("st_uid", c_uint), Field("st_gid", c_uint),
       Field("st_rdev", c_ulong), Field("__pad1", c_ulong),
       Field("st_size", c_long), Field("st_blksize", c_int),
       Field("__pad2", c_int), Field("st_blocks", c_long),
       Field("st_atime", c_long), Field("st_atime_nsec", c_long),
       Field("st_mtime", c_long), Field("st_mtime_nsec", c_long),
       Field("st_ctime", c_long), Field("st_ctime_nsec", c_long),
       ArrayField("__unused", c_uint, 2) >>

\* Stat on Linux x86_64
StatX86_64 ==
    << Field("st_dev", c_ulong), Field("st_ino", c_ulong),
       Field("st_nlink", c_ulong), Field("st_mode", c_uint),
       Field("st_uid", c_uint), Field("st_gid", c_uint),
       Field("_pad0", c_int), Field("st_rdev", c_ulong),
       Field("st_size", c_long), Field("st_blksize", c_long),
       Field("st_blocks", c_long) >>
    \o TimespecField("st_atim.tv_sec", "st_atim.tv_nsec")
    \o TimespecField("st_mtim.tv_sec", "st_mtim.tv_nsec")
    \o TimespecField("st_ctim.tv_sec", "st_ctim.tv_nsec")
    \o << ArrayField("_reserved", c_long, 3) >>

\* Dirent on macOS
DirentDarwin ==
    << Field("d_ino", c_ulong), Field("d_reclen", c_ushort),
       Field("d_type", c_ubyte), Field("d_namlen", c_ubyte),
       ArrayField("d_name", c_char, 256) >>

\* Dirent on Linux (the branch taken whenever the platform is not macOS)
DirentLinux ==
    << Field("d_ino", c_ulong), Field("d_off", c_ulong),
       Field("d_reclen", c_ushort), Field("d_type", c_ubyte),
       ArrayField("d_name", c_char, 256) >>

\* the next multiple of a at or after pos
AlignUp(pos, a) == ((pos + a - 1) \div a) * a

RECURSIVE EndOf(_, _)
\* the first byte after field n, each field placed at its alignment
EndOf(fields, n) ==
    IF n = 0 THEN 0
    ELSE AlignUp(EndOf(fields, n - 1), fields[n].align) + fields[n].size

\* where field n starts
OffsetOf(fields, n) == AlignUp(EndOf(fields, n - 1), fields[n].align)

RECURSIVE MaxAlign(_, _)
MaxAlign(fields, n) ==
    IF n = 0 THEN 1
    ELSE LET m == MaxAlign(fields, n - 1)
         IN  IF fields[n].align > m THEN fields[n].align ELSE m

\* ctypes.sizeof: the fields and the padding up to the structure's alignment
SizeOf(fields) == AlignUp(EndOf(fields, Len(fields)), MaxAlign(fields, Len(fields)))

\* the hosts the module can be imported on
Hosts ==
    { [platform |-> "linux",  arch |-> "aarch64"],
      [platform |-> "linux",  arch |-> "x86_64"],
      [platform |-> "linux",  arch |-> "riscv64"],
      [platform |-> "darwin", arch |-> "arm64"],
      [platform |-> "darwin", arch |-> "x86_64"],
      [platform |-> "win32",  arch |-> "AMD64"] }

IS_MACOS(h) == h.platform = "darwin"

IS_LINUX(h) == h.platform = "linux"

\* the if/elif chain that defines Stat has a branch for this host
HasStat(h) ==
    \/ IS_MACOS(h)
    \/ IS_LINUX(h) /\ h.arch \in {"aarch64", "x86_64"}

\* the Stat class the chain defines
Stat(h) ==
    IF IS_MACOS(h) THEN StatDarwin
    ELSE IF IS_LINUX(h) /\ h.arch = "aarch64" THEN StatAarch64
    ELSE StatX86_64

\* the Dirent class
Dirent(h) == IF IS_MACOS(h) THEN DirentDarwin ELSE DirentLinux

_EXPECTED_SIZES ==
    { [platform |-> "linux", arch |-> "aarch64", stat |-> 128, dirent |-> 280],
      [platform |-> "linux", arch |-> "x86_64",  stat |-> 144, dirent |-> 280] }

\* key in _EXPECTED_SIZES
Verified(h) == \E e \in _EXPECTED_SIZES : e.platform = h.platform /\ e.arch = h.arch

\* a plausible slip: a pair without verified sizes is refused
ValidateStrict(h) ==
    IF ~Verified(h) THEN "AssertionError"
    ELSE LET expected == CHOOSE e \in _EXPECTED_SIZES :
                            e.platform = h.platform /\ e.arch = h.arch
         IN  IF SizeOf(Stat(h)) = expected.stat /\ SizeOf(Dirent(h)) = expected.dirent
             THEN "ok" ELSE "AssertionError"

\* _validate(): a warning for a pair that is not in the table, else the two
\* assertions on the sizes
_validate(h) ==
    IF ~Verified(h) THEN "RuntimeWarning"
    ELSE LET expected == CHOOSE e \in _EXPECTED_SIZES :
                            e.platform = h.platform /\ e.arch = h.arch
         IN  IF SizeOf(Stat(h)) = expected.stat /\ SizeOf(Dirent(h)) = expected.dirent
             THEN "ok" ELSE "AssertionError"

\* importing the module: the Stat chain ends in raise NotImplementedError,
\* _validate() runs last
ImportStructs(h) == IF ~HasStat(h) THEN "NotImplementedError" ELSE _validate(h)

\* a plausible slip: only the low byte of a value is written
ByteAtLowOnly(v, j) == IF j = 0 THEN v % 256 ELSE 0

RECURSIVE ByteAt(_, _)
\* byte j of v in little-endian two's complement
ByteAt(v, j) == IF j = 0 THEN v % 256 ELSE ByteAt(v \div 256, j - 1)

RECURSIVE DecodeLE(_, _)
\* the integer held by little-endian bytes bs
DecodeLE(bs, signed) ==
    IF Len(bs) = 1
    THEN IF signed /\ bs[1] >= 128 THEN bs[1] - 256 ELSE bs[1]
    ELSE bs[1] + 256 * DecodeLE(Tail(bs), signed)

\* the names of the layout's fields
FieldNames(fields) == {fields[i].name : i \in DOMAIN fields}

IndexOf(fields, name) == CHOOSE i \in DOMAIN fields : fields[i].name = name

\* what a field holds after v was assigned to it
Stored(f, v) == DecodeLE([j \in 1..f.size |-> ByteAt(v, j - 1)], f.signed)

\* new_stat(**kwargs): Stat() is zero-filled, then setattr for each keyword;
\* a keyword that names no field becomes a plain attribute of the object
new_stat(fields, kwargs) ==
    [ fields |-> [n \in FieldNames(fields) |->
                    LET given == {i \in DOMAIN kwargs : kwargs[i].k = n}
                    IN  IF given = {} THEN 0
                        ELSE Stored(fields[IndexOf(fields, n)],
                                    kwargs[CHOOSE i \in given : \A j \in given : j <= i].v)],
      dict   |-> {kwargs[i].k : i \in DOMAIN kwargs} \ FieldNames(fields) ]

\* struct_to_bytes(s) = bytes(s): the structure's memory, padding zero
struct_to_bytes(fields, obj) ==
    [ pos \in 1..SizeOf(fields) |->
        LET at == {i \in DOMAIN fields :
                      /\ OffsetOf(fields, i) < pos
                      /\ pos <= OffsetOf(fields, i) + fields[i].size}
        IN  IF at = {} THEN 0
            ELSE LET i == CHOOSE i \in at : TRUE
                 IN  IF fields[i].count > 1 THEN 0
                     ELSE ByteAt(obj.fields[fields[i].name],
                                 pos - 1 - OffsetOf(fields, i)) ]

\* reading the record with the same layout (Stat.from_buffer_copy, or the
\* child's C library): every scalar field from its offset
DecodeStat(fields, bytes) ==
    [ n \in FieldNames(fields) |->
        LET i == IndexOf(fields, n)
        IN  IF fields[i].count > 1 THEN 0
            ELSE DecodeLE(SubSeq(bytes, OffsetOf(fields, i) + 1,
                                 OffsetOf(fields, i) + fields[i].size),
                          fields[i].signed) ]

\* keyword arguments for the timestamp: none, the scalar st_mtime, or a
\* Timespec (written as its two members) under the name it has on Linux
\* x86_64 or on macOS
TimeKwargs ==
    { <<>> }
    \cup { << [k |-> "st_mtime", v |-> t] >> : t \in {-1, 1700000000} }
    \cup { << [k |-> "st_mtim.tv_sec", v |-> t], [k |-> "st_mtim.tv_nsec", v |-> 5] >> :
             t \in {-1, 1700000000} }
    \cup { << [k |-> "st_mtimespec.tv_sec", v |-> t],
              [k |-> "st_mtimespec.tv_nsec", v |-> 5] >> : t \in {-1, 1700000000} }

\* keyword arguments new_stat is called with
StatKwargs ==
    { << [k |-> "st_size", v |-> size], [k |-> "st_mode", v |-> mode] >> \o t :
        size \in {0, 4096}, mode \in {16877, 70000}, t \in TimeKwargs }

NoStat == [fields |-> << >>, dict |-> {}]

StructCall(op, outcome, given, obj, bytes, read) ==
    [op |-> op, outcome |-> outcome, given |-> given, obj |-> obj,
     bytes |-> bytes, read |-> read]

InitStructs ==
    /\ subprocess_dry_run = FALSE
    /\ vfs_track_writes = FALSE
    /\ subprocess_auto_persist = TRUE
    /\ remote_target = None
    /\ ssh_connection = FALSE
    /\ subprocess_always_deny = {}
    /\ subprocess_auto_approve = {}
    /\ subprocess_approved = {}
    /\ subprocess_pending = <<>>
    /\ file_writes_pending = <<>>
    /\ queue_file = [written |-> FALSE, commands |-> <<>>]
    /\ sessions = <<>>
    /\ last = StructCall("init", "-", <<>>, NoStat, <<>>, << >>)
    /\ ncalls = 0
    /\ vpath = <<>>
    /\ tmp_bound = FALSE
    /\ pc = "method"
    /\ opt = NoOptions
    /\ requested = <<>>
    /\ own = [i \in Instances |-> NothingOwn]
    /\ profile_files = NoProfileFiles
    /\ audit_file = <<>>
    /\ audit_proc = [p \in Procs |-> NoLogCall]
    /\ audit_lock = 0
    /\ host \in Hosts
    /\ store = [i \in SessionIds |-> NotStored]
    /\ tui = NoTui
    /\ runs = <<>>
    /\ IdleServices

struct_frame ==
    /\ UNCHANGED << config_vars, subprocess_pending, subprocess_approved,
                    file_writes_pending, queue_file, sessions, ncalls >>
    /\ UNCHANGED << vfs_vars, ext_vars >>

\* import shannot.structs
struct_import ==
    /\ last.op = "init"
    /\ last' = StructCall("import", ImportStructs(host), <<>>, NoStat, <<>>, << >>)
    /\ struct_frame

\* new_stat(**kwargs)
struct_new_stat(kwargs) ==
    /\ last.op = "import"
    /\ last.outcome \in {"ok", "RuntimeWarning"}
    /\ last' = StructCall("new_stat", "-", kwargs, new_stat(Stat(host), kwargs),
                           <<>>, << >>)
    /\ struct_frame

\* struct_to_bytes(s)
struct_encode ==
    /\ last.op = "new_stat"
    /\ last' = StructCall("struct_to_bytes", "-", last.given, last.obj,
                           struct_to_bytes(Stat(host), last.obj), << >>)
    /\ struct_frame

\* the record is read back with the same layout
struct_decode ==
    /\ last.op = "struct_to_bytes"
    /\ last' = StructCall("decode", "-", last.given, last.obj, last.bytes,
                           DecodeStat(Stat(host), last.bytes))
    /\ struct_frame

NextStructs ==
    \/ struct_import
    \/ \E kwargs \in StatKwargs : struct_new_stat(kwargs)
    \/ struct_encode
    \/ struct_decode

SpecStructs == InitStructs /\ [][NextStructs]_vars

-----------------------------------------------------------------------------
(* Virtual path resolution *)

\* the real directory --tmp binds, and the real files of the host
HostTmp == << "srv", "box" >>
RealFiles == { << "etc", "passwd" >>, << "srv", "box", "f" >>, << "srv", "key" >> }
RealDirs == { <<>>, << "etc" >>, << "srv" >>, << "srv", "box" >> }

\* names a path is made of
PathNames == { "tmp", "..", "etc", "passwd", "f" }

RECURSIVE SeqsUpTo(_, _)
SeqsUpTo(S, n) ==
    IF n = 0 THEN { <<>> }
    ELSE LET shorter == SeqsUpTo(S, n - 1)
         IN  shorter \cup { Append(q, x) : q \in { r \in shorter : Len(r) = n - 1 }, x \in S }

RECURSIVE NormFrom(_, _, _)
\* the real file system's reading of a path: ".." drops the component before it
NormFrom(p, i, acc) ==
    IF i > Len(p) THEN acc
    ELSE IF p[i] = ".."
         THEN NormFrom(p, i + 1, IF acc = <<>> THEN acc ELSE SubSeq(acc, 1, Len(acc) - 1))
         ELSE NormFrom(p, i + 1, Append(acc, p[i]))

RealPath(p) == NormFrom(p, 1, <<>>)

RECURSIVE ClimbsFrom(_, _, _)
\* some prefix of rest holds more ".." than names: it leaves its starting directory
ClimbsFrom(rest, i, depth) ==
    IF i > Len(rest) THEN FALSE
    ELSE IF rest[i] = ".."
         THEN depth = 0 \/ ClimbsFrom(rest, i + 1, depth - 1)
         ELSE ClimbsFrom(rest, i + 1, depth + 1)

Climbs(rest) == ClimbsFrom(rest, 1, 0)

Failed(code) == [kind |-> "error", code |-> code, path |-> <<>>]

\* what the real file system answers for a joined path
RealLookup(p) ==
    LET r == RealPath(p)
    IN  IF r \in RealFiles \/ r \in RealDirs
        THEN [kind |-> "real", code |-> "OK", path |-> r]
        ELSE Failed("ENOENT")

\* a plausible slip: the remaining components are joined without looking at ".."
RealDirJoinUnchecked(base, rest) == RealLookup(base \o rest)

\* RealDir: the remaining components are joined onto the real base path;
\* a path that climbs above the bound directory fails
RealDirJoin(base, rest) ==
    IF Climbs(rest) THEN Failed("ENOENT") ELSE RealLookup(base \o rest)

\* Dir({"tmp": Dir({})}): the children of the controller's virtual root
RootChildren == { "tmp" }

\* walk from the root: a Dir looks the next component up among its children
vfs_getnode(path, bound) ==
    IF path = <<>> THEN [kind |-> "virtual", code |-> "OK", path |-> <<>>]
    ELSE IF path[1] \notin RootChildren THEN Failed("ENOENT")
    ELSE IF bound THEN RealDirJoin(HostTmp, Tail(path))
    ELSE IF Len(path) = 1 THEN [kind |-> "virtual", code |-> "OK", path |-> << "tmp" >>]
    ELSE Failed("ENOENT")

InitVfs ==
    /\ subprocess_dry_run = FALSE
    /\ vfs_track_writes = FALSE
    /\ subprocess_auto_persist = TRUE
    /\ remote_target = None
    /\ ssh_connection = FALSE
    /\ subprocess_always_deny = {}
    /\ subprocess_auto_approve = {}
    /\ subprocess_approved = {}
    /\ subprocess_pending = <<>>
    /\ file_writes_pending = <<>>
    /\ queue_file = [written |-> FALSE, commands |-> <<>>]
    /\ sessions = <<>>
    /\ last = [op |-> "init", node |-> Failed("-")]
    /\ ncalls = 0
    /\ vpath \in SeqsUpTo(PathNames, MaxPathLen)
    /\ tmp_bound \in BOOLEAN
    /\ IdleExt

\* one resolution of vpath against the controller's root
resolve ==
    /\ last.op = "init"
    /\ last' = [op |-> "vfs_getnode", node |-> vfs_getnode(vpath, tmp_bound)]
    /\ UNCHANGED << subprocess_pending, subprocess_approved, file_writes_pending,
                    queue_file, sessions, ncalls >>
    /\ UNCHANGED config_vars
    /\ UNCHANGED vfs_vars

NextVfs == resolve /\ UNCHANGED ext_vars

SpecVfs == InitVfs /\ [][NextVfs]_vars

-----------------------------------------------------------------------------
(* What the shell runs *)

RECURSIVE SegmentsFrom(_, _, _, _)
\* the simple commands of a command list: the text between ";"
SegmentsFrom(s, i, cur, acc) ==
    IF i > Len(s) THEN Append(acc, cur)
    ELSE IF s[i] = ";"
         THEN SegmentsFrom(s, i + 1, <<>>, Append(acc, cur))
         ELSE SegmentsFrom(s, i + 1, Append(cur, s[i]), acc)

\* a NAME=value word: its first "=" comes after a non-empty name without "/"
IsAssignment(w) ==
    \E i \in DOMAIN w : /\ w[i] = "="
                        /\ i > 1
                        /\ \A j \in 1..(i - 1) : w[j] # "/" /\ w[j] # "="

\* the executable a simple command runs: the first word that is no assignment
SimpleExecutable(seg) ==
    LET words == Split(seg)
        cmds  == {i \in DOMAIN words : ~IsAssignment(words[i])}
    IN  IF cmds = {} THEN {}
        ELSE { LastPathPart(words[CHOOSE i \in cmds : \A j \in cmds : i <= j]) }

\* subprocess.run(cmd, shell=True): the executables sh -c cmd runs
ShellExecutables(cmd) ==
    LET segs == SegmentsFrom(cmd, 1, <<>>, <<>>)
    IN  UNION { SimpleExecutable(segs[i]) : i \in DOMAIN segs }

-----------------------------------------------------------------------------
(* Claims *)

\* the step serves one call of op
Serves(op) == last'.op = op /\ ncalls' = ncalls + 1

\* the exact string or its base-command token is in the set
Matches(cmd, set) == cmd \in set \/ BaseOf(cmd) \in set

\* C1: _check_permission(c) returns the first match of: deny if c or its base
\* token is in always_deny; allow if c is in approved; allow if c or its base
\* token is in auto_approve; otherwise queue.
C1_FirstMatchWins ==
    last.op = "_check_permission" =>
        LET c == last.cmd
            denied   == Matches(c, subprocess_always_deny)
            approved == c \in subprocess_approved
            trusted  == Matches(c, subprocess_auto_approve)
        IN  /\ denied => last.perm = "deny"
            /\ (~denied /\ approved) => last.perm = "allow"
            /\ (~denied /\ ~approved /\ trusted) => last.perm = "allow"
            /\ (~denied /\ ~approved /\ ~trusted) => last.perm = "queue"

\* C1 witness: an approved and auto-approved command whose base token is
\* deny-listed was classified deny
C1_Witness ==
    /\ last.op = "_check_permission"
    /\ last.cmd = S_rm_x
    /\ S_rm_x \in subprocess_approved
    /\ S_rm_x \in subprocess_auto_approve
    /\ S_rm_x \notin subprocess_always_deny
    /\ S_rm \in subprocess_always_deny
    /\ last.perm = "deny"

\* C2: with dry-run off, s_system(c) for a deny-listed c (exact string or base
\* token) returns 127, executes nothing and leaves pending and approved as
\* they were, whatever was requested and approved before.
C2_DenyRefuses ==
    [][ ( /\ Serves("s_system")
          /\ ~subprocess_dry_run
          /\ Matches(last'.cmd, subprocess_always_deny) )
        => /\ last'.ret = 127
           /\ last'.execs = <<>>
           /\ subprocess_pending' = subprocess_pending
           /\ subprocess_approved' = subprocess_approved ]_vars

\* C2 witness: a command approved earlier in the run, deny-listed by its base
\* token, was refused
C2_Witness ==
    /\ last.op = "s_system"
    /\ ~subprocess_dry_run
    /\ last.cmd \in subprocess_approved
    /\ last.cmd \notin subprocess_always_deny
    /\ BaseOf(last.cmd) \in subprocess_always_deny
    /\ last.ret = 127

\* C3: no command string that runs an executable named in always_deny is
\* classified allow or handed to the shell or the remote transport.
C3_DenyCoversEveryUse ==
    ( /\ last.op = "s_system"
      /\ ShellExecutables(last.cmd) \cap subprocess_always_deny # {} )
    => /\ last.perm # "allow"
       /\ last.execs = <<>>

\* C4: while dry-run is on, every s_system(c) appends c to pending, executes
\* nothing and returns 0, whatever c's classification would be.
C4_DryRunQueuesAll ==
    [][ ( Serves("s_system") /\ subprocess_dry_run )
        => /\ subprocess_pending' = Append(subprocess_pending, last'.cmd)
           /\ last'.execs = <<>>
           /\ last'.ret = 0 ]_vars

\* C4 witness: in dry-run a deny-listed command was queued with status 0
C4_Witness ==
    /\ last.op = "s_system"
    /\ subprocess_dry_run
    /\ Matches(last.cmd, subprocess_always_deny)
    /\ subprocess_pending # <<>>
    /\ subprocess_pending[Len(subprocess_pending)] = last.cmd
    /\ last.ret = 0

\* C5: with dry-run off, s_system(c) for a command classified queue appends
\* exactly one entry c at the end of pending, executes nothing and returns 0.
C5_QueueAppendsOnce ==
    [][ ( /\ Serves("s_system")
          /\ ~subprocess_dry_run
          /\ _check_permission(last'.cmd) = "queue" )
        => /\ subprocess_pending' = Append(subprocess_pending, last'.cmd)
           /\ last'.execs = <<>>
           /\ last'.ret = 0 ]_vars

\* C5 witness: the same command was queued twice and is pending twice
C5_Witness ==
    /\ last.op = "s_system"
    /\ ~subprocess_dry_run
    /\ last.perm = "queue"
    /\ Len(subprocess_pending) = 2
    /\ subprocess_pending[1] = last.cmd
    /\ subprocess_pending[2] = last.cmd

\* the call returned the fabricated success status for a queued command
FabricatedSuccess ==
    /\ last.op = "s_system"
    /\ last.perm \in {"queue", "dry-run"}
    /\ last.ret = 0

C7_AllowRunsOnce ==
    [][ ( /\ Serves("s_system")
          /\ ~subprocess_dry_run
          /\ _check_permission(last'.cmd) = "allow" )
        => /\ Len(last'.execs) = 1
           /\ last'.execs[1].cmd = last'.cmd
           /\ (remote_target = None => last'.execs[1].how = "local_shell")
           /\ (remote_target # None =>
                  /\ last'.execs[1].how \in {"ssh_connection", "ssh_oneshot"}
                  /\ last'.execs[1].target = remote_target)
           /\ last'.ret = last'.execs[1].rc
           /\ subprocess_pending' = subprocess_pending ]_vars

\* C7 witness: an allowed command ran over SSH and its exit code 2 came back
C7_Witness ==
    /\ last.op = "s_system"
    /\ last.perm = "allow"
    /\ remote_target # None
    /\ Len(last.execs) = 1
    /\ last.execs[1].how = "ssh_oneshot"
    /\ last.ret = 2

\* C8 as claimed: a request for a string that is in subprocess_approved is
\* never queued.
C8_ApprovedNeverQueued ==
    [][ ( Serves("s_system") /\ last'.cmd \in subprocess_approved )
        => subprocess_pending' = subprocess_pending ]_vars

\* C8 amended: with dry-run off, a request for a string that is in
\* subprocess_approved is never queued.
C8_ApprovedNeverQueuedLive ==
    [][ ( /\ Serves("s_system")
          /\ ~subprocess_dry_run
          /\ last'.cmd \in subprocess_approved )
        => /\ subprocess_pending' = subprocess_pending
           /\ last'.perm \in {"allow", "deny"} ]_vars

\* C8 witness: a command that no profile entry covers was approved and then
\* allowed
C8_Witness ==
    /\ last.op = "s_system"
    /\ ~subprocess_dry_run
    /\ last.cmd \in subprocess_approved
    /\ ~Matches(last.cmd, subprocess_auto_approve)
    /\ last.perm = "allow"

-----------------------------------------------------------------------------
(* The controller's run *)

\* the requests that were queued (by classification or by dry-run)
IsQueued(r) == r.perm \in {"queue", "dry-run"}

\* the commands of the queued requests, in request order
QueuedCommands(reqs) ==
    LET q == SelectSeq(reqs, IsQueued)
    IN  [i \in DOMAIN q |-> q[i].cmd]

\* C11: the commands list of the session that finalize_session produces at
\* the end of a run is exactly the sequence of the commands the child
\* requested and that were queued, in request order, repeated requests kept
\* as repeated entries.
C11_SessionInRequestOrder ==
    (pc = "done" /\ sessions # <<>>) =>
        /\ Len(sessions) = 1
        /\ sessions[1].commands = QueuedCommands(requested)

\* a run that requested the same command twice ended with a session
C11_Witness ==
    /\ pc = "done"
    /\ Len(requested) = 2
    /\ requested[1].cmd = requested[2].cmd
    /\ sessions # <<>>
    /\ Len(sessions[1].commands) = 2

\* every queued request's command is in a stored session
QueuedAllInSessions ==
    \A i \in DOMAIN requested :
        IsQueued(requested[i]) =>
            \E k \in DOMAIN sessions : requested[i].cmd \in Range(sessions[k].commands)

\* C12 as stated: when the child has terminated and main is done, every
\* command queued during the run, in dry-run mode or in normal mode, is in a
\* persisted session and none is left in the in-memory queue.
C12_QueuedAlwaysFinalized ==
    pc = "done" => (QueuedAllInSessions /\ subprocess_pending = <<>>)

\* C12, amended: in dry-run mode main hands the queue and the tracked writes
\* to finalize_session when the child has terminated: every queued command is
\* in the persisted session and both lists are cleared. In normal mode no
\* session is created: the queued commands stay in subprocess_pending and in
\* the pending-queue file.
C12_DryRunHandsOff ==
    pc = "done" =>
        IF subprocess_dry_run
        THEN /\ QueuedAllInSessions
             /\ subprocess_pending = <<>>
             /\ file_writes_pending = <<>>
        ELSE /\ sessions = <<>>
             /\ subprocess_pending = QueuedCommands(requested)
             /\ (subprocess_pending # <<>> =>
                    queue_file = [written |-> TRUE, commands |-> subprocess_pending])

\* a dry-run with one command and one tracked write ended in a session
C12_Witness ==
    /\ pc = "done"
    /\ subprocess_dry_run
    /\ Len(requested) = 1
    /\ Len(sessions) = 1
    /\ Len(sessions[1].commands) = 1
    /\ Len(sessions[1].pending_writes) = 1
    /\ subprocess_pending = <<>>

-----------------------------------------------------------------------------
(* Instances *)

\* C13 as stated: distinct dispatcher instances share no in-memory permission
\* state: what an instance sees in the pending queue, the approved set, the
\* auto-approve set and the always-deny set is only what was queued, approved
\* or loaded through that instance, and nothing when it has just been created.
C13_InstancesShareNothing ==
    \A i \in Instances :
        own[i].made =>
            /\ Range(Seen(i).pending) \subseteq Range(own[i].pending)
            /\ Seen(i).approved \subseteq own[i].approved
            /\ Seen(i).auto \subseteq own[i].auto
            /\ Seen(i).deny \subseteq own[i].deny

-----------------------------------------------------------------------------
(* Pre-approved commands *)

\* the commands main() was told to treat as approved
PreApproved ==
    Range(opt.approved_commands) \cup
    (IF opt.session.found THEN Range(opt.session.commands) ELSE {})

\* main() is past its start-up statements (lines 234-250)
StartedUp == pc \notin {"options", "profile", "preapprove", "session"}

\* C14 as stated: once start-up is over, the commands of the resumed session
\* and the commands given with --approved-commands are in subprocess_approved,
\* and each request for one of them that is classified is allowed unless
\* always_deny matches it.
C14_PreApprovedInForce ==
    StartedUp =>
        /\ PreApproved \subseteq subprocess_approved
        /\ \A i \in DOMAIN requested :
              ( /\ requested[i].cmd \in PreApproved
                /\ ~subprocess_dry_run
                /\ ~Matches(requested[i].cmd, subprocess_always_deny) )
              => requested[i].perm = "allow"

-----------------------------------------------------------------------------
(* Classification is pure *)

-----------------------------------------------------------------------------
(* Dry-run and write tracking *)

\* C16: in every configuration main() reaches from its options, dry-run mode
\* being on implies that VFS write tracking is on.
C16_DryRunTracksWrites == subprocess_dry_run => vfs_track_writes

\* a dry run tracked a write
C16_Witness ==
    /\ pc = "run"
    /\ opt.dry_run
    /\ subprocess_dry_run
    /\ vfs_track_writes
    /\ file_writes_pending # <<>>

-----------------------------------------------------------------------------
(* Diagnostics *)

\* C17: every request refused as deny writes the line "[DENIED] <command>"
\* naming the refused command to stderr in the call that returns the refusal
\* status 127, with debug mode on or off.
C17_DenyIsReported ==
    [][ (Serves("s_system") /\ last'.perm = "deny") =>
            /\ last'.ret = 127
            /\ last'.diag = Diag("[DENIED]", last'.cmd, None)
      ]_vars

\* a request was refused in a run without --debug, and reported
C17_Witness ==
    /\ pc = "run"
    /\ ~opt.debug
    /\ last.op = "s_system"
    /\ last.perm = "deny"
    /\ last.diag.tag = "[DENIED]"
    /\ last.diag.cmd = S_rm_x

-----------------------------------------------------------------------------
(* Audit of decisions *)

\* a request for which _check_permission was called and a decision taken
IsDecision(r) == r.perm \in {"allow", "deny", "queue"}

\* an audit line written by log_command_decision
IsCommandDecisionEvent(e) == e.type = "command_decision"

\* C18 as stated: every permission decision taken for a subprocess request
\* (allow, deny or queue) is in the audit log as one command-decision event.
C18_DecisionsAudited ==
    Len(SelectSeq(audit_file, IsCommandDecisionEvent))
        = Len(SelectSeq(requested, IsDecision))

-----------------------------------------------------------------------------
(* Audit sequence numbers *)

\* C19 as stated: within one audit log file the events carry the sequence
\* numbers 1, 2, 3, ... in file order, without duplicates or gaps, for every
\* interleaving of log() calls by concurrent processes and every event size.
C19_SequenceUnbroken ==
    \A i \in DOMAIN audit_file : audit_file[i].seq = i

-----------------------------------------------------------------------------
(* Profile precedence *)

\* what a profile.json that holds JSON contains, read as a profile
Contents(f) ==
    [auto |-> IF "auto_approve" \in f.keys THEN f.auto ELSE {},
     deny |-> IF "always_deny" \in f.keys THEN f.deny ELSE {}]

\* the file holds JSON (an object or another JSON value)
HoldsJson(f) == f.kind \in {"object", "nonobject"}

\* C20 as stated: load_profile() returns the contents of the project-local
\* .shannot/profile.json when that file exists, otherwise the contents of the
\* global profile.json when that file exists, otherwise DEFAULT_PROFILE.
C20_LocalGlobalDefault ==
    last.op = "load_profile" =>
        LET local == profile_files.local
            global == profile_files.global
        IN  /\ last.raised = "-"
            /\ (local.kind # "absent" /\ HoldsJson(local))
                  => last.profile = Contents(local)
            /\ (local.kind = "absent" /\ global.kind # "absent" /\ HoldsJson(global))
                  => last.profile = Contents(global)
            /\ (local.kind = "absent" /\ global.kind = "absent")
                  => last.profile = DEFAULT_PROFILE

-----------------------------------------------------------------------------
(* The base-command token *)

\* the whitespace-separated tokens that are not KEY=VALUE-shaped
GenuineTokens(cmd) ==
    {i \in DOMAIN Split(cmd) : ~IsAssignment(Split(cmd)[i])}

\* C21 as stated: _parse_command(c) returns as base-command token the first
\* token of c that is not KEY=VALUE-shaped, with any path prefix removed, and
\* the empty token for a string without tokens.
C21_BaseIsFirstExecutable ==
    last.op = "_parse_command" =>
        LET parts == Split(last.cmd)
            genuine == GenuineTokens(last.cmd)
        IN  /\ last.parts = parts
            /\ (parts = <<>> => last.base = S_empty)
            /\ (genuine # {} =>
                   last.base = LastPathPart(
                       parts[CHOOSE i \in genuine : \A j \in genuine : i <= j]))

-----------------------------------------------------------------------------
(* Struct layouts *)

LinuxAarch64 == [platform |-> "linux", arch |-> "aarch64"]

\* C22: the stat record of 64-bit Linux/ARM is exactly 128 bytes long and the
\* one of 64-bit Linux/x86 exactly 144 bytes, as layouts and as encoded
\* records; the Linux directory-entry record is 280 bytes on both.
C22_RecordSizes ==
    /\ (host = LinuxAarch64 /\ last.op = "import") =>
            SizeOf(Stat(host)) = 128 /\ SizeOf(Dirent(host)) = 280
    /\ (host = LinuxX86 /\ last.op = "import") =>
            SizeOf(Stat(host)) = 144 /\ SizeOf(Dirent(host)) = 280
    /\ (host = LinuxAarch64 /\ last.op = "struct_to_bytes") => Len(last.bytes) = 128
    /\ (host = LinuxX86 /\ last.op = "struct_to_bytes") => Len(last.bytes) = 144

\* a stat record was encoded on Linux/ARM
C22_Witness ==
    /\ host = LinuxAarch64
    /\ last.op = "struct_to_bytes"
    /\ Len(last.bytes) = 128
    /\ last.obj.fields["st_size"] = 4096

\* C23: importing the struct module selects the layout by platform and
\* architecture and refuses to start (NotImplementedError) where it has none;
\* where it has one, a pair of the size table passes the size comparison and
\* a pair outside the table (macOS) gets a warning and start-up continues.
C23_StartupSelfCheck ==
    /\ last.op = "import" =>
          /\ Verified(host) => last.outcome = "ok"
          /\ (HasStat(host) /\ ~Verified(host)) => last.outcome = "RuntimeWarning"
          /\ ~HasStat(host) => last.outcome = "NotImplementedError"
    /\ last.op \in {"new_stat", "struct_to_bytes", "decode"} => HasStat(host)

\* a host outside the table was warned about and went on to build a record
C23_Witness ==
    /\ ~Verified(host)
    /\ last.op = "new_stat"
    /\ ImportStructs(host) = "RuntimeWarning"

\* C23 as stated: every pair that is not in the table gets the warning
C23_UnknownPairWarns ==
    (last.op = "import" /\ ~Verified(host)) => last.outcome = "RuntimeWarning"

\* v is in the range of the field's C type (every value used here is below
\* 2^31 in magnitude, so it is in the range of any signed field of 4 or 8
\* bytes and, when not negative, of any unsigned one)
InRange(f, v) ==
    IF f.size >= 4 THEN f.signed \/ v >= 0
    ELSE IF f.signed THEN -(2 ^ (8 * f.size - 1)) <= v /\ v < 2 ^ (8 * f.size - 1)
    ELSE 0 <= v /\ v < 2 ^ (8 * f.size)

\* the keyword names a field of the layout and the value fits it
FitsField(fields, kw) ==
    /\ kw.k \in FieldNames(fields)
    /\ InRange(fields[IndexOf(fields, kw.k)], kw.v)

-----------------------------------------------------------------------------
(* Approval and the pending queue *)

\* C29: with dry-run off, after approve_command(c) no entry equal to c
\* remains in subprocess_pending, so that the pending queue and the approved
\* set stay disjoint.
C29_ApprovedLeavesPending ==
    [][(~subprocess_dry_run /\ Serves("approve_command")) =>
          last'.cmd \notin Range(subprocess_pending')]_vars

-----------------------------------------------------------------------------
(* Sessions and their review *)

\* C25: a session is run for real only if its persisted status was approved
\* when the run started, whatever the entry point.
C25_OnlyApprovedRuns ==
    \A k \in DOMAIN runs : runs[k].status = "approved"

Terminal == {"rejected", "executed", "failed"}

\* C26: a session whose persisted status is rejected, executed or failed is
\* not run and keeps its status, whatever TUI key or CLI execute command
\* follows.
C26_TerminalStaysTerminal ==
    [][last'.op \in {"tui_key", "cli_execute"} =>
          \A i \in SessionIds :
              (store[i].exists /\ store[i].status \in Terminal) =>
                  /\ store'[i].status = store[i].status
                  /\ \A k \in DOMAIN runs' : runs'[k].id # i]_vars

\* C27: when execute_session has returned, the persisted status is executed
\* if the returned exit code is 0 and failed otherwise.
C27_StatusFollowsExitCode ==
    last.op \in {"tui_key", "cli_execute"} =>
        \A k \in DOMAIN last.results :
            store[last.results[k].id].status =
                IF last.results[k].code = 0 THEN "executed" ELSE "failed"

\* C28: in the TUI sessions are run only by 'y' in a ConfirmView, and then
\* exactly the sessions the view was opened for; 'x' runs nothing and changes
\* no session, it at most opens a ConfirmView; 'n', Esc and 'q' in a
\* ConfirmView go back to the view below without running or changing a session.
C28_ConfirmBeforeExecute ==
    [][/\ (last'.op = "tui_key" /\ (runs' # <<>> \/ last'.results # <<>>)) =>
              /\ tui # <<>>
              /\ tui[Len(tui)].kind = "confirm"
              /\ tui_key("y")
              /\ last'.ids = Ids(tui[Len(tui)].sessions)
              /\ \A k \in DOMAIN runs' : runs'[k].id \in Range(last'.ids)
       /\ (tui # <<>> /\ tui_key("x")) =>
              /\ store' = store
              /\ runs' = <<>>
              /\ Len(tui') > Len(tui) => tui'[Len(tui')].kind = "confirm"
       /\ (tui # <<>> /\ (tui_key("n") \/ tui_key("Esc") \/ tui_key("q"))) =>
              (tui[Len(tui)].kind = "confirm" =>
                  /\ store' = store
                  /\ runs' = <<>>
                  /\ tui' = SubSeq(tui, 1, Len(tui) - 1))]_vars

\* two selected sessions were confirmed with 'y' and both were run
C28_Witness ==
    /\ last.op = "tui_key"
    /\ Len(runs) = 2
    /\ tui # <<>>
    /\ tui[Len(tui)].kind = "result"
    /\ \A i \in SessionIds : store[i].status \in {"executed", "failed"}

\* C30: create_session never produces the id of an already stored session:
\* every session created so far is still stored under its own id.
C30_CreatedSessionsAllStored ==
    Cardinality({i \in SessionIds : store[i].exists}) = Created

\* ---------------------------------------------------------------------
\* AuditLogger.log with its failures, its rotation and its clean-up
\* ---------------------------------------------------------------------

\* AuditConfig.rotation
Rotations == {"daily", "session", "none"}

\* AuditConfig.max_files: clean-up switched off, and two small limits
MaxFilesValues == {0, 1, 2}

\* datetime.now(UTC).strftime("%Y-%m-%d") on two consecutive days
Dates == << "2024-01-15", "2024-01-16" >>

\* the session_id argument of log(): none, or the id of a session
LogSessionIds == {None, "20240115-scan-a3f2", "20240116-fix-0b1c"}

\* the names log_dir.glob("audit-*.jsonl") can return, in the ascending
\* order sorted() gives them ('-' sorts before the digits)
GlobNames ==
    << "audit-2024-01-15.jsonl", "audit-2024-01-16.jsonl",
       "audit-20240115-scan-a3f2.jsonl", "audit-20240116-fix-0b1c.jsonl" >>

Globbed(files) == { f \in files : \E k \in DOMAIN GlobNames : GlobNames[k] = f }

NameOrder(f) == CHOOSE k \in DOMAIN GlobNames : GlobNames[k] = f

\* AuditLogger._get_log_path
_get_log_path(rotation, today, session_id) ==
    IF rotation = "daily" THEN
        IF today = Dates[1] THEN GlobNames[1] ELSE GlobNames[2]
    ELSE IF rotation = "session" /\ session_id # None THEN
        IF session_id = "20240115-scan-a3f2" THEN GlobNames[3] ELSE GlobNames[4]
    ELSE "audit.jsonl"

\* log_files[max_files:] of the reverse-sorted glob: the names that have
\* max_files or more names above them
OldFiles(files, max_files) ==
    { f \in Globbed(files) :
        Cardinality({ g \in Globbed(files) : NameOrder(g) > NameOrder(f) })
            >= max_files }

\* AuditLogger._cleanup_old_logs: the directory it leaves; stuck are the
\* files whose unlink() raised OSError
_cleanup_old_logs(files, max_files, stuck) ==
    IF max_files <= 0 THEN files
    ELSE files \ (OldFiles(files, max_files) \ stuck)

\* the exceptions the steps of log() raise
IsException(exc) == exc \in {"OSError", "TypeError", "AttributeError"}

AbsorbedOSErrorOnly(exc) == exc = "OSError"

\* log(): except OSError: pass / except Exception: pass
Absorbed(exc) == exc = "OSError" \/ IsException(exc)

\* one process's log() call
NoLog ==
    [at |-> "idle", path |-> "-", held |-> FALSE, unlinked |-> FALSE,
     wrote |-> FALSE, step |-> "-", outcome |-> "-"]

\* the call is over: the with block has closed the file, which drops a
\* lock that is still held, and the handlers decide what the caller sees
LogReturn(c, step, exc) ==
    [c EXCEPT !.at = "idle", !.held = FALSE, !.step = step,
              !.outcome = IF exc = "-" \/ Absorbed(exc) THEN "returned"
                          ELSE "raised"]

\* nothing of the sandbox, its controller and its review tools is in use
IdleCore ==
    /\ subprocess_dry_run = TRUE
    /\ vfs_track_writes = TRUE
    /\ subprocess_auto_persist = TRUE
    /\ remote_target = None
    /\ ssh_connection = FALSE
    /\ subprocess_always_deny = {}
    /\ subprocess_auto_approve = {}
    /\ subprocess_approved = {}
    /\ subprocess_pending = <<>>
    /\ file_writes_pending = <<>>
    /\ queue_file = [written |-> FALSE, commands |-> <<>>]
    /\ sessions = <<>>
    /\ last = NoCall
    /\ ncalls = 0
    /\ vpath = <<>>
    /\ tmp_bound = FALSE
    /\ pc = "method"
    /\ opt = NoOptions
    /\ requested = <<>>
    /\ own = [i \in Instances |-> NothingOwn]
    /\ profile_files = NoProfileFiles
    /\ audit_file = <<>>
    /\ audit_proc = [p \in Procs |-> NoLogCall]
    /\ audit_lock = 0
    /\ host = LinuxX86
    /\ store = [i \in SessionIds |-> NotStored]
    /\ tui = NoTui
    /\ runs = <<>>

InitLog ==
    /\ IdleCore
    /\ \E rotation \in Rotations, max_files \in MaxFilesValues :
          logs = [rotation |-> rotation, max_files |-> max_files,
                  today |-> Dates[1], files |-> {},
                  call |-> [p \in Procs |-> NoLog]]
    /\ mcp = NoMcp
    /\ tools = NoTools
    /\ runtime = NoRuntime

log_frame ==
    /\ UNCHANGED << config_vars, engine_vars, vfs_vars, main_vars, own,
                    profile_files, audit_vars, host, review_vars >>
    /\ UNCHANGED << mcp, tools, runtime >>

\* log() up to open(path, "a"): the two early returns, _get_log_path with
\* its mkdir, the second mkdir and the open, which creates the file
log_enter(p, enabled, session_id, exc) ==
    LET c == logs.call[p]
        path == _get_log_path(logs.rotation, logs.today, session_id)
        fresh == [NoLog EXCEPT !.path = path]
    IN  /\ c.at = "idle"
        /\ IF ~enabled THEN
               logs' = [logs EXCEPT !.call[p] = LogReturn(NoLog, "-", "-")]
           ELSE IF exc # "-" THEN
               logs' = [logs EXCEPT !.call[p] = LogReturn(fresh, "open", exc)]
           ELSE
               logs' = [logs EXCEPT !.files = @ \cup {path},
                                    !.call[p] = [fresh EXCEPT !.at = "opened"]]
        /\ log_frame

\* fcntl.flock(f, LOCK_EX): waits while another process holds the lock
\* of the same file
log_flock(p, exc) ==
    LET c == logs.call[p]
    IN  /\ c.at = "opened"
        /\ IF exc # "-" THEN
               logs' = [logs EXCEPT !.call[p] = LogReturn(c, "flock", exc)]
           ELSE
               /\ \A q \in Procs \ {p} :
                     ~ ( logs.call[q].held /\ logs.call[q].path = c.path
                         /\ logs.call[q].unlinked = c.unlinked )
               /\ logs' = [logs EXCEPT !.call[p] =
                              [c EXCEPT !.at = "locked", !.held = TRUE]]
        /\ log_frame

\* the steps under the lock and the finally that unlocks
AppendFailures ==
    { <<"-", "-">>, <<"_get_next_seq", "AttributeError">>,
      <<"to_json", "TypeError">>, <<"write", "OSError">>,
      <<"unlock", "OSError">> }

\* _get_next_seq, the write and the flush, then LOCK_UN in the finally and
\* the end of the with block; a failure skips the clean-up
log_append(p, failure) ==
    LET c == logs.call[p]
        step == failure[1]
        exc == failure[2]
        written == [c EXCEPT !.wrote = step \in {"-", "unlock"}, !.held = FALSE]
    IN  /\ c.at = "locked"
        /\ IF exc # "-" THEN
               logs' = [logs EXCEPT !.call[p] = LogReturn(written, step, exc)]
           ELSE
               logs' = [logs EXCEPT !.call[p] = [written EXCEPT !.at = "written"]]
        /\ log_frame

\* self._cleanup_old_logs() and the return of log()
log_cleanup(p, exc) ==
    LET c == logs.call[p]
    IN  /\ c.at = "written"
        /\ IF exc # "-" THEN
               logs' = [logs EXCEPT !.call[p] = LogReturn(c, "cleanup", exc)]
           ELSE
               \E stuck \in SUBSET OldFiles(logs.files, logs.max_files) :
                   LET left == _cleanup_old_logs(logs.files, logs.max_files, stuck)
                       gone == logs.files \ left
                   IN  logs' = [logs EXCEPT
                           !.files = left,
                           !.call = [q \in Procs |->
                               IF q = p THEN LogReturn(c, "-", "-")
                               ELSE IF logs.call[q].at \in {"opened", "locked"}
                                       /\ logs.call[q].path \in gone
                                    THEN [logs.call[q] EXCEPT !.unlinked = TRUE]
                                    ELSE logs.call[q]]]
        /\ log_frame

\* the date changes
midnight ==
    /\ logs.today = Dates[1]
    /\ logs' = [logs EXCEPT !.today = Dates[2]]
    /\ log_frame

NextLog ==
    \/ \E p \in Procs, enabled \in BOOLEAN, session_id \in LogSessionIds,
          exc \in {"-", "OSError"} : log_enter(p, enabled, session_id, exc)
    \/ \E p \in Procs, exc \in {"-", "OSError"} : log_flock(p, exc)
    \/ \E p \in Procs, failure \in AppendFailures : log_append(p, failure)
    \/ \E p \in Procs, exc \in {"-", "OSError"} : log_cleanup(p, exc)
    \/ midnight

SpecLog == InitLog /\ [][NextLog]_vars

\* ---------------------------------------------------------------------
\* MinimalMCPServer: the loop of run() and the routing of one message
\* ---------------------------------------------------------------------

\* the lines served in one behaviour
MaxLines == 3

\* ErrorCode
PARSE_ERROR == 0 - 32700
METHOD_NOT_FOUND == 0 - 32601
INVALID_PARAMS == 0 - 32602
INTERNAL_ERROR == 0 - 32603

\* the "method" member of a message; None when it has none
McpMethods ==
    { "initialize", "initialized", "tools/list", "tools/call",
      "resources/list", "resources/read", "prompts/list", "prompts/get",
      "ping", "notifications/initialized", None }

\* the "id" member of a message; None when it has none
McpIds == { None, "req-1", "req-2" }

\* what readline() returns: "" at end of input, a line json.loads rejects,
\* a line that is a JSON array, or a JSON object with its members;
\* params is "object" also when the member is missing (the default {})
McpLines ==
    { [json |-> j, method |-> "-", id |-> "-", params |-> "-"] :
        j \in {"eof", "invalid", "array"} }
    \cup [json : {"object"}, method : McpMethods, id : McpIds,
          params : {"object", "null"}]

\* what a registered handler does when it is called
HandlerOutcomes == { "result", "unserialisable", "raises", "raises JSONRPCError" }

\* the handler registry a method needs
HandlerOf(method) ==
    CASE method = "tools/list" -> "_tool_list_handler"
      [] method = "tools/call" -> "_tool_call_handler"
      [] method = "resources/list" -> "_resource_list_handler"
      [] method = "resources/read" -> "_resource_read_handler"
      [] method = "prompts/list" -> "_prompt_list_handler"
      [] method = "prompts/get" -> "_prompt_get_handler"
      [] OTHER -> "-"

\* the registries filled by the decorators: none, those ShannotMCPServer
\* fills, and all six
RegisteredSets ==
    { {},
      { "_tool_list_handler", "_tool_call_handler",
        "_resource_list_handler", "_resource_read_handler" },
      { "_tool_list_handler", "_tool_call_handler",
        "_resource_list_handler", "_resource_read_handler",
        "_prompt_list_handler", "_prompt_get_handler" } }

create_responseNoId(msg_id, kind, code) ==
    [id |-> None, kind |-> kind, code |-> code]

\* create_response: the id, and either the result or the error
create_response(msg_id, kind, code) ==
    [id |-> msg_id, kind |-> kind, code |-> code]

\* _send_response, as the messages it appends to the output
_send_response(msg_id) == << create_response(msg_id, "result", 0) >>

\* _send_error_response
_send_error_response(msg_id, code) == << create_response(msg_id, "error", code) >>

\* the branches that call params.get(...)
ReadsParams(method) ==
    method \in {"initialize", "tools/call", "resources/read", "prompts/get"}

\* _handle_message for a message that is a dict: the messages it writes
_handle_message(message, registered, outcome) ==
    LET method == message.method
        msg_id == message.id
    IN  IF method = "initialize" THEN
            IF message.params = "object" THEN _send_response(msg_id)
            ELSE _send_error_response(msg_id, INTERNAL_ERROR)
        ELSE IF method = "initialized" THEN << >>
        ELSE IF HandlerOf(method) # "-" THEN
            IF HandlerOf(method) \notin registered THEN
                _send_error_response(msg_id, METHOD_NOT_FOUND)
            ELSE IF ReadsParams(method) /\ message.params # "object" THEN
                _send_error_response(msg_id, INTERNAL_ERROR)
            ELSE IF outcome = "result" THEN _send_response(msg_id)
            ELSE IF outcome = "raises JSONRPCError" THEN
                _send_error_response(msg_id, INVALID_PARAMS)
            ELSE _send_error_response(msg_id, INTERNAL_ERROR)
        ELSE IF method = "ping" THEN _send_response(msg_id)
        ELSE _send_error_response(msg_id, METHOD_NOT_FOUND)

NoLine == [json |-> "-", method |-> "-", id |-> "-", params |-> "-"]

InitMcp ==
    /\ IdleCore
    /\ logs = NoLogs
    /\ \E registered \in RegisteredSets :
          mcp = [at |-> "running", cause |-> "-", registered |-> registered,
                 line |-> NoLine, outcome |-> "-", written |-> << >>,
                 asked |-> << >>, answered |-> << >>]
    /\ tools = NoTools
    /\ runtime = NoRuntime

mcp_frame ==
    /\ UNCHANGED << config_vars, engine_vars, vfs_vars, main_vars, own,
                    profile_files, audit_vars, host, review_vars >>
    /\ UNCHANGED << logs, tools, runtime >>

\* one turn of the loop of run(): readline, json.loads and _handle_message.
\* message.get() of a message that is not a dict raises AttributeError
\* outside the try of _handle_message; run() catches it after the loop
mcp_serve(line, outcome) ==
    LET served(written) ==
            [mcp EXCEPT !.line = line, !.outcome = outcome,
                        !.written = written,
                        !.asked = IF line.json # "object" THEN Append(@, None)
                                  ELSE IF line.method = "initialized" THEN @
                                  ELSE Append(@, line.id),
                        !.answered = @ \o [k \in DOMAIN written |-> written[k].id]]
        ended(cause) ==
            [mcp EXCEPT !.at = "ended", !.cause = cause, !.line = line,
                        !.outcome = outcome, !.written = << >>]
    IN  /\ mcp.at = "running"
        /\ Len(mcp.asked) < MaxLines
        /\ outcome # "-" <=> ( line.json = "object"
                               /\ HandlerOf(line.method) \in mcp.registered
                               /\ ( ReadsParams(line.method)
                                    => line.params = "object" ) )
        /\ mcp' = IF line.json = "eof" THEN ended("eof")
                  ELSE IF line.json = "invalid"
                       THEN served(_send_error_response(None, PARSE_ERROR))
                  ELSE IF line.json # "object" THEN ended("Exception")
                  ELSE served(_handle_message(line, mcp.registered, outcome))
        /\ mcp_frame

\* Ctrl-C while readline() blocks
mcp_interrupt ==
    /\ mcp.at = "running"
    /\ mcp' = [mcp EXCEPT !.at = "ended", !.cause = "KeyboardInterrupt",
                          !.line = NoLine, !.outcome = "-", !.written = << >>]
    /\ mcp_frame

NextMcp ==
    \/ \E line \in McpLines, outcome \in HandlerOutcomes \cup {"-"} :
          mcp_serve(line, outcome)
    \/ mcp_interrupt

SpecMcp == InitMcp /\ [][NextMcp]_vars

\* ---------------------------------------------------------------------
\* ShannotMCPServer: the tools it lists and the routing of a tool call
\* ---------------------------------------------------------------------

\* a string is modelled by its pieces between underscores:
\* "sandbox_minimal_read_file" is <<"sandbox", "minimal", "read", "file">>
ProfileNames == { <<"minimal">>, <<"diagnostics">>, <<"my", "profile">> }

\* the tools list_tools advertises for one profile, by the operation behind
ToolSuffixes ==
    [ run_command |-> << >>,
      read_file |-> <<"read", "file">>,
      list_directory |-> <<"list", "directory">>,
      check_disk_usage |-> <<"check", "disk">>,
      check_memory |-> <<"check", "memory">> ]

\* list_tools: Tool.name of every tool, for every profile loaded
list_tools(deps_by_profile) ==
    { <<"sandbox">> \o pname \o ToolSuffixes[op] :
        pname \in deps_by_profile, op \in DOMAIN ToolSuffixes }

\* name.split("_", 2): at most two splits, the rest stays one part
Split2(name) ==
    IF Len(name) <= 3 THEN [k \in DOMAIN name |-> << name[k] >>]
    ELSE << << name[1] >>, << name[2] >>, SubSeq(name, 3, Len(name)) >>

ToolAnswer(answer, op, pname) == [answer |-> answer, op |-> op, profile |-> pname]

\* call_tool: the operation it routes to and the text it answers with;
\* raised says that the operation or the building of its input raised
call_tool(deps_by_profile, name, raised) ==
    LET parts == Split2(name)
        pname == parts[2]
        action == IF Len(parts) > 2 THEN parts[3] ELSE <<"command">>
        ran(op) == ToolAnswer(IF raised THEN "Error executing tool" ELSE "output",
                              op, pname)
    IN  IF ~( Len(name) >= 2 /\ name[1] = "sandbox" )
            THEN ToolAnswer("Unknown tool", "-", << >>)
        ELSE IF Len(parts) < 2
            THEN ToolAnswer("Invalid tool name format", "-", << >>)
        ELSE IF pname \notin deps_by_profile
            THEN ToolAnswer("Unknown profile", "-", pname)
        ELSE IF action = <<"command">> THEN ran("run_command")
        ELSE IF action = <<"read">> /\ Len(parts) > 3 /\ parts[4] = <<"file">>
            THEN ran("read_file")
        ELSE IF action = <<"list">> /\ Len(parts) > 3 /\ parts[4] = <<"directory">>
            THEN ran("list_directory")
        ELSE IF action = <<"check">> /\ Len(parts) > 3 /\ parts[4] = <<"disk">>
            THEN ran("check_disk_usage")
        ELSE IF action = <<"check">> /\ Len(parts) > 3 /\ parts[4] = <<"memory">>
            THEN ran("check_memory")
        ELSE ToolAnswer("Unknown action", "-", pname)

\* the names a client calls: every name some server advertises, and others
CalledNames ==
    list_tools(ProfileNames)
    \cup { <<"sandbox", "minimal", "command">>, <<"sandbox", "nosuch">>,
           <<"sandbox", "minimal", "uptime">>, <<"read", "file">>, <<"sandbox">> }

NoToolCall == [name |-> << >>, raised |-> FALSE, result |-> ToolAnswer("-", "-", << >>)]

InitTools ==
    /\ IdleCore
    /\ logs = NoLogs
    /\ mcp = NoMcp
    /\ \E deps_by_profile \in SUBSET ProfileNames :
          tools = [deps_by_profile |-> deps_by_profile, listed |-> {},
                   call |-> NoToolCall]
    /\ runtime = NoRuntime

tools_frame ==
    /\ UNCHANGED << config_vars, engine_vars, vfs_vars, main_vars, own,
                    profile_files, audit_vars, host, review_vars >>
    /\ UNCHANGED << logs, mcp, runtime >>

\* tools/list
tools_list ==
    /\ tools.listed = {}
    /\ tools.deps_by_profile # {}
    /\ tools' = [tools EXCEPT !.listed = list_tools(tools.deps_by_profile)]
    /\ tools_frame

\* tools/call; the handlers exist only when a profile was loaded
tools_call(name, raised) ==
    /\ tools.deps_by_profile # {}
    /\ tools' = [tools EXCEPT !.call =
                    [name |-> name, raised |-> raised,
                     result |-> call_tool(tools.deps_by_profile, name, raised)]]
    /\ tools_frame

NextTools ==
    \/ tools_list
    \/ \E name \in CalledNames, raised \in BOOLEAN : tools_call(name, raised)

SpecTools == InitTools /\ [][NextTools]_vars

\* ---------------------------------------------------------------------
\* setup_runtime: download, checksum, extraction into RUNTIME_DIR
\* ---------------------------------------------------------------------

\* RUNTIME_DIR on disk: whether it exists and which of lib-python and
\* lib_pypy it holds
NoRuntimeDir == [exists |-> FALSE, lib_python |-> FALSE, lib_pypy |-> FALSE]

\* is_runtime_installed
is_runtime_installed(dir) == dir.lib_python /\ dir.lib_pypy

\* what the URL serves: the released archive or other bytes
Archives == {"released", "altered"}

\* hashlib.sha256 of the downloaded file, as a digest per content
Sha256(archive) == IF archive = "released" THEN "sha-released" ELSE "sha-altered"

\* verify_checksum
verify_checksum(archive, expected_sha256) == Sha256(archive) = expected_sha256

\* how download_with_progress and extract_runtime end
Downloads == {"ok", "raises"}
Extractions == {"ok", "invalid structure", "raises midway"}

\* shutil.rmtree(RUNTIME_DIR)
rmtree(dir) == NoRuntimeDir

\* extract_runtime: mkdir first, then the members in archive order
extract_runtime(dir, extraction) ==
    IF extraction = "ok"
        THEN [exists |-> TRUE, lib_python |-> TRUE, lib_pypy |-> TRUE]
    ELSE IF extraction = "raises midway"
        THEN [dir EXCEPT !.exists = TRUE, !.lib_python = TRUE]
    ELSE [dir EXCEPT !.exists = TRUE]

\* setup_runtime: the directory it leaves, what it returns or raises, and
\* whether anything was extracted
setup_runtime(dir, force, download, archive, expected_sha256, extraction) ==
    LET cleaned == IF force /\ dir.exists THEN rmtree(dir) ELSE dir
    IN  IF is_runtime_installed(dir) /\ ~force
            THEN [dir |-> dir, result |-> "True", extracted |-> FALSE]
        ELSE IF download = "raises"
            THEN [dir |-> cleaned, result |-> "SetupError: Download failed",
                  extracted |-> FALSE]
        ELSE IF ~verify_checksum(archive, expected_sha256)
            THEN [dir |-> cleaned, result |-> "SetupError: Checksum verification failed",
                  extracted |-> FALSE]
        ELSE IF extraction # "ok"
            THEN [dir |-> extract_runtime(cleaned, extraction),
                  result |-> "SetupError: Extraction failed",
                  extracted |-> extraction = "raises midway"]
        ELSE [dir |-> extract_runtime(cleaned, extraction), result |-> "True",
              extracted |-> TRUE]

NoSetup ==
    [op |-> "-", force |-> FALSE, download |-> "-", archive |-> "-",
     expected_sha256 |-> "-", extraction |-> "-", was_installed |-> FALSE,
     result |-> "-", extracted |-> FALSE]

InitRuntime ==
    /\ IdleCore
    /\ logs = NoLogs
    /\ mcp = NoMcp
    /\ tools = NoTools
    /\ runtime = [dir |-> NoRuntimeDir, call |-> NoSetup]

runtime_frame ==
    /\ UNCHANGED << config_vars, engine_vars, vfs_vars, main_vars, own,
                    profile_files, audit_vars, host, review_vars >>
    /\ UNCHANGED << logs, mcp, tools >>

\* shannot setup [--force]
runtime_setup(force, download, archive, expected_sha256, extraction) ==
    LET done == setup_runtime(runtime.dir, force, download, archive,
                              expected_sha256, extraction)
    IN  /\ runtime' =
              [dir |-> done.dir,
               call |-> [op |-> "setup_runtime", force |-> force,
                         download |-> download, archive |-> archive,
                         expected_sha256 |-> expected_sha256,
                         extraction |-> extraction,
                         was_installed |-> is_runtime_installed(runtime.dir),
                         result |-> done.result, extracted |-> done.extracted]]
        /\ runtime_frame

\* remove_runtime
runtime_remove ==
    /\ runtime' =
          [dir |-> IF runtime.dir.exists THEN rmtree(runtime.dir) ELSE runtime.dir,
           call |-> [NoSetup EXCEPT !.op = "remove_runtime",
                                    !.was_installed = is_runtime_installed(runtime.dir),
                                    !.result = "True"]]
    /\ runtime_frame

NextRuntime ==
    \/ \E force \in BOOLEAN, download \in Downloads, archive \in Archives,
          expected_sha256 \in {"sha-released", "sha-altered"},
          extraction \in Extractions :
          runtime_setup(force, download, archive, expected_sha256, extraction)
    \/ runtime_remove

SpecRuntime == InitRuntime /\ [][NextRuntime]_vars

\* C31: log() never raises to its caller, whatever step failed, and a
\* process that is not inside log() holds no lock of a log file
C31_LogNeverBreaksCaller ==
    \A p \in Procs :
        /\ logs.call[p].outcome # "raised"
        /\ logs.call[p].at = "idle" => ~logs.call[p].held

\* a call that failed while it held the lock has returned, the lock dropped
C31_Witness ==
    \E p \in Procs :
        /\ logs.call[p].at = "idle"
        /\ logs.call[p].step \in {"_get_next_seq", "to_json", "write"}
        /\ logs.call[p].outcome = "returned"
        /\ ~logs.call[p].held

\* C32: when a log() call that wrote its event returns with max_files > 0,
\* at most max_files audit log files are left and the file written is one
\* of them; and no clean-up removes a file a process has open for writing
C32_CleanupKeepsCurrentLog ==
    [][ \A p \in Procs :
          ( logs.call[p].at = "written" /\ logs'.call[p].at = "idle" )
          => /\ ( logs.max_files > 0 /\ logs'.call[p].outcome = "returned" )
                => /\ Cardinality(logs'.files) <= logs.max_files
                   /\ logs.call[p].path \in logs'.files
             /\ \A q \in Procs :
                   logs.call[q].at \in {"opened", "locked"}
                   => logs.call[q].path \in logs'.files ]_vars

\* C33: a line that is a JSON object is answered by exactly one message
\* carrying the id of that line, or by none when its method is
\* "initialized", before the next line is read; so the ids written are
\* the ids read, in order
C33_OneResponsePerRequest ==
    /\ ( mcp.at = "running" /\ mcp.line.json = "object" )
       => IF mcp.line.method = "initialized" THEN mcp.written = << >>
          ELSE /\ Len(mcp.written) = 1
               /\ mcp.written[1].id = mcp.line.id
    /\ mcp.answered = mcp.asked

\* two requests have been answered
C33_Witness ==
    /\ mcp.at = "running"
    /\ mcp.line.json = "object"
    /\ mcp.line.method = "tools/call"
    /\ Len(mcp.answered) = 2
    /\ mcp.answered[1] # mcp.answered[2]

\* C34: the loop ends only at end of input or on a keyboard interrupt;
\* a line that is not JSON is answered -32700, an unknown method or one
\* without a handler -32601, a handler that raises -32603
C34_NoLineEndsTheServer ==
    /\ mcp.at = "ended" => mcp.cause \in {"eof", "KeyboardInterrupt"}
    /\ ( mcp.at = "running" /\ mcp.line.json = "invalid" )
       => mcp.written = _send_error_response(None, PARSE_ERROR)
    /\ ( mcp.at = "running" /\ mcp.line.json = "object"
         /\ mcp.line.method # "initialized"
         /\ mcp.line.method \notin {"initialize", "ping"}
         /\ HandlerOf(mcp.line.method) \notin mcp.registered )
       => mcp.written = _send_error_response(mcp.line.id, METHOD_NOT_FOUND)
    /\ ( mcp.at = "running" /\ mcp.outcome = "raises" )
       => mcp.written = _send_error_response(mcp.line.id, INTERNAL_ERROR)

\* C35: a call of a name that list_tools advertises for profile p runs the
\* operation of that name on profile p; it is never answered "Unknown
\* action" or "Unknown profile"
C35_AdvertisedToolsAreRouted ==
    \A pname \in tools.deps_by_profile, op \in DOMAIN ToolSuffixes :
        tools.call.name = <<"sandbox">> \o pname \o ToolSuffixes[op]
        => /\ tools.call.result.op = op
           /\ tools.call.result.profile = pname
           /\ tools.call.result.answer \notin {"Unknown action", "Unknown profile"}

\* C36: when setup_runtime fails, a runtime installed before the call is
\* installed after it, with force too; and a call whose archive does not
\* have the expected SHA-256 extracts nothing
C36_FailedSetupKeepsRuntime ==
    runtime.call.op = "setup_runtime"
    => /\ ( runtime.call.was_installed /\ runtime.call.result # "True" )
          => is_runtime_installed(runtime.dir)
       /\ Sha256(runtime.call.archive) # runtime.call.expected_sha256
          => ~runtime.call.extracted


====
